---- MODULE Spec2Model ----
(***************************************************************************)
(* Model of the script-weaver DAG executor (package dag, executor.go):     *)
(* Executor.RunSerial and Executor.RunParallel driving a TaskRunner over a *)
(* TaskGraph, with an optional incremental plan.                           *)
(*                                                                         *)
(* Task names are the integers 1..NumTasks; their numeric order stands for *)
(* the lexicographic order of task names.                                  *)
(*                                                                         *)
(* The second part models the incremental planner (package incremental,    *)
(* invalidation.go and plan.go): CalculateInvalidation, the canonical form *)
(* and binary encoding of invalidation reasons, and BuildIncrementalPlan.  *)
(*                                                                         *)
(* The third part models the command line (package cli): executeGraph for  *)
(* a run and for a resume of a previous run, with the checkpoints and the  *)
(* cache that the previous run left in the workspace.                      *)
(*                                                                         *)
(* The fourth part models the graph document (package graph):              *)
(* Graph.Normalize and ComputeHash, and the structural validation of       *)
(* graph.Validate.                                                         *)
(*                                                                         *)
(* The fifth part models the plugin hooks (package pluginengine):          *)
(* NewHookEngine and the four hook calls around a run and its nodes.       *)
(***************************************************************************)
EXTENDS Integers, Sequences, FiniteSets, TLC

\* ---------------------------------------------------------------- bounds
NumTasks == 3
MaxEdges == 2
MaxWorkers == 2
NumNodes == 3      \* nodes of a graph snapshot
MaxUpstream == 2   \* upstream entries of a graph snapshot; edges of a graph document

Tasks == 1..NumTasks

\* ------------------------------------------------------- lifecycle states
TaskPending == "PENDING"
TaskRunning == "RUNNING"
TaskCompleted == "COMPLETED"
TaskCached == "CACHED"
TaskFailed == "FAILED"
TaskSkipped == "SKIPPED"

\* plan decisions (incremental.NodeExecutionDecision)
DecisionExecute == "Execute"
DecisionReuseCache == "ReuseCache"

\* ------------------------------------------------------------ state
VARIABLES
    ctx,          \* the context passed to the run: "live" or "cancelled"
    mode,         \* "serial" (RunSerial) or "parallel" (RunParallel)
    concurrency,  \* RunParallel's concurrency argument
    edges,        \* e.Graph: set of <<from, to>>
    plan,         \* e.Plan: [present |-> BOOLEAN, Decisions |-> [Tasks -> decision]]
    runner,       \* e.Runner: its answers per task, "?" until the call is first made,
                  \* and whether it is a runner that may return errors and nil results
    state,        \* e.state
    order,        \* order (ExecutionOrder)
    exitCodes,    \* exitCodes map (partial: DOMAIN = keys written)
    pc,           \* position of the coordinator (the RunSerial / RunParallel goroutine)
    cur,          \* RunSerial: next, and which runner call is pending for it
    depth,        \* RunParallel: depth
    nextToStart,  \* RunParallel: nextToStart
    inFlight,     \* RunParallel: inFlight
    workCh,       \* RunParallel: workCh (buffered, capacity = concurrency)
    busy,         \* work items held by worker goroutines between receive and send
    doneCh,       \* RunParallel: doneCh (buffered, capacity = concurrency)
    closed,       \* workCh has been closed by stopWorkers
    retval,       \* what the run returned: [kind |-> "none" | "result" | "error", err |-> ...]
    calls,        \* number of Probe / Run / Restore calls made per task, and how many
                  \* of them were made while e.mu was held
    events,       \* trace recorder: events in commit order
    skipCause,    \* trace recorder: skipped task -> cause task (0 = none)
    oldGraph,     \* PlanIncremental: oldGraph (a GraphSnapshot, or nil)
    newGraph,     \* PlanIncremental: newGraph
    cache,        \* PlanIncremental: cache (core.Cache): the hashes it holds, and
                  \* whether its Has fails
    invalidation, \* the InvalidationMap returned by CalculateInvalidation
    incPlan,      \* what BuildIncrementalPlan returned: a plan or an error
    serialized,   \* the bytes returned by InvalidationMap.MarshalBinary
    recreated,    \* a map of the same logical content created in another order
    reserialized, \* the bytes MarshalBinary returned for that map
    ipc,          \* how far the planning pass has come
    inv,          \* executeGraph: inv (the CLI invocation being executed)
    recovery,     \* the recovery store under the workspace: the record and the failure
                  \* of the run a resume may name, and those of the run being made
    workspace,    \* what the invocation finds: the graph, and per task what the prior
                  \* run left of it (checkpoint, cache entry) and how its script ends
    cli,          \* position and result of executeGraph
    gdoc,         \* graph hashing: a graph document, the document an edit made of
                  \* it, and the edit; graph validation: the graph given and the
                  \* error returned
    hooks         \* plugin hooks: the hook engine, the hook calls made, and the
                  \* run that reaches the hook points

plannerVars == <<oldGraph, newGraph, cache, invalidation, incPlan, serialized, recreated,
                 reserialized, ipc>>

executorVars == <<ctx, mode, concurrency, edges, plan, runner, state, order, exitCodes, pc,
                  cur, depth, nextToStart, inFlight, workCh, busy, doneCh, closed, retval,
                  calls, events, skipCause>>

cliVars == <<inv, recovery, workspace, cli, gdoc, hooks>>

vars == <<executorVars, plannerVars, cliVars>>

\* no planning pass is modelled while the executor runs
PlannerIdle ==
    /\ oldGraph = <<>>
    /\ newGraph = <<>>
    /\ cache = <<>>
    /\ invalidation = <<>>
    /\ incPlan = <<>>
    /\ serialized = <<>>
    /\ recreated = <<>>
    /\ reserialized = <<>>
    /\ ipc = "idle"

\* no CLI invocation is modelled around the run, no graph is hashed or
\* validated, and no hook engine is attached
CliIdle ==
    /\ inv = <<>>
    /\ recovery = <<>>
    /\ workspace = <<>>
    /\ cli = [pc |-> "idle"]
    /\ gdoc = <<>>
    /\ hooks = <<>>

\* ------------------------------------------------------------ graph
Upstream(E, t) == {p \in Tasks : <<p, t>> \in E}

Downstream(E, t) == {c \in Tasks : <<t, c>> \in E}

RECURSIVE ReachFrom(_, _, _)
ReachFrom(E, S, n) ==
    IF n = 0 THEN S
    ELSE ReachFrom(E, S \cup UNION {Downstream(E, s) : s \in S}, n - 1)

\* transitive downstream tasks of t (t itself only when it lies on a cycle)
Descendants(E, t) == ReachFrom(E, Downstream(E, t), NumTasks)

Acyclic(E) == \A t \in Tasks : t \notin Descendants(E, t)

Graphs ==
    {E \in SUBSET {<<a, b>> \in Tasks \X Tasks : a # b} :
        Cardinality(E) <= MaxEdges /\ Acyclic(E)}

\* topological depth: 0 for roots, 1 + max depth of the upstreams otherwise
RECURSIVE Depth(_, _)
Depth(E, t) ==
    IF Upstream(E, t) = {} THEN 0
    ELSE LET ds == {Depth(E, p) : p \in Upstream(E, t)}
         IN 1 + (CHOOSE d \in ds : \A x \in ds : x <= d)

RECURSIVE SortedSeq(_)
SortedSeq(S) ==
    IF S = {} THEN <<>>
    ELSE LET m == CHOOSE x \in S : \A y \in S : x <= y
         IN <<m>> \o SortedSeq(S \ {m})

\* ------------------------------------------------------------ state machine
IsTerminal(st) == st \in {TaskCompleted, TaskCached, TaskFailed, TaskSkipped}

IsSuccessful(st) == st \in {TaskCompleted, TaskCached}

\* variant: every Pending task is ready, whatever its upstreams
GetReadyTasks_IgnoreUpstream(E, st) ==
    SortedSeq({t \in Tasks : st[t] = TaskPending})

GetReadyTasks(E, st) ==
    SortedSeq({t \in Tasks :
        st[t] = TaskPending /\ \A p \in Upstream(E, t) : IsSuccessful(st[p])})

Transition(st, name, from, to) ==
    IF st[name] = from
    THEN [ok |-> TRUE, st |-> [st EXCEPT ![name] = to]]
    ELSE [ok |-> FALSE, st |-> st]

\* variant: every Pending task is skipped, downstream of the failure or not
FailAndPropagate_SkipAllPending(E, st, name) ==
    IF st[name] # TaskRunning
    THEN [ok |-> FALSE, st |-> st]
    ELSE [ok |-> TRUE,
          st |-> [t \in Tasks |->
                    IF t = name THEN TaskFailed
                    ELSE IF st[t] = TaskPending THEN TaskSkipped ELSE st[t]]]

FailAndPropagate(E, st, name) ==
    IF st[name] # TaskRunning
    THEN [ok |-> FALSE, st |-> st]
    ELSE [ok |-> TRUE,
          st |-> [t \in Tasks |->
                    IF t = name THEN TaskFailed
                    ELSE IF t \in Descendants(E, name) /\ st[t] = TaskPending
                         THEN TaskSkipped
                         ELSE st[t]]]

\* ------------------------------------------------------------ runner
\* The TaskRunner is deterministic: it gives one answer per task, drawn when
\* the task is first handed to it and kept from then on.
\*   Probe          -> "hit" (cached = true, non-nil result) or "miss"
\*   Run / Restore  -> a result with exit code 0 ("exit0") or non-zero ("exit1");
\*                     Restore may also return an error ("err")
RunOutcomes == {"exit0", "exit1"}

RestoreOutcomes == {"exit0", "exit1", "err"}

ProbeAnswers(t) ==
    IF runner.probe[t] # "?" THEN {runner.probe[t]} ELSE {"hit", "miss"}

\* what a runner that is not well behaved may return besides: Run an error
\* or a nil result without error, Restore a nil result without error
FaultOutcomes(call) == IF call = "restore" THEN {"nil"} ELSE {"err", "nil"}

CallAnswers(call, t) ==
    IF runner.out[t] # "?" THEN {runner.out[t]}
    ELSE (IF call = "restore" THEN RestoreOutcomes ELSE RunOutcomes)
         \cup (IF runner.faulty THEN FaultOutcomes(call) ELSE {})

ExitCodeOf(out) == IF out = "exit0" THEN 0 ELSE 1

\* a Go map write m[k] = v
MapPut(m, k, v) == [x \in (DOMAIN m) \cup {k} |-> IF x = k THEN v ELSE m[x]]

EmptyMap == [x \in {} |-> 0]

\* a runner call made after e.mu was released
Bump(c, op, t) == [c EXCEPT ![op][t] = @ + 1]

\* a runner call made between e.mu.Lock() and e.mu.Unlock()
BumpLocked(c, op, t) == [c EXCEPT ![op][t] = @ + 1, !.locked[t] = @ + 1]

\* ------------------------------------------------------------ trace recorder
Ev(kind, task, reason, cause) ==
    [kind |-> kind, task |-> task, reason |-> reason, cause |-> cause]

\* variant: the first failure committed stays the cause
RecordSkipCauses_KeepFirst(E, st, sc, f) ==
    [t \in Tasks |->
        IF t \in Descendants(E, f) /\ st[t] = TaskSkipped /\ sc[t] = 0 THEN f ELSE sc[t]]

\* skip causes after failure of f has been committed: the minimum failing
\* upstream implying the skip
RecordSkipCauses(E, st, sc, f) ==
    [t \in Tasks |->
        IF t \in Descendants(E, f) /\ st[t] = TaskSkipped
        THEN (IF sc[t] = 0 \/ f < sc[t] THEN f ELSE sc[t])
        ELSE sc[t]]

\* canonical ordering of trace events: (task id, kind precedence, reason, cause)
KindPrecedence(k) ==
    CASE k = "TaskInvalidated" -> 0
      [] k = "TaskArtifactsRestored" -> 1
      [] k = "TaskCached" -> 2
      [] k = "TaskExecuted" -> 3
      [] k = "TaskFailed" -> 4
      [] k = "TaskSkipped" -> 5

\* rank of a reason code in lexicographic order of the codes
ReasonRank(r) ==
    CASE r = "" -> 0
      [] r = "CacheHit" -> 1
      [] r = "CacheReplay" -> 2
      [] r = "CacheRestore" -> 3
      [] r = "PlannedReuseCache" -> 4
      [] r = "UpstreamFailed" -> 5

EventLess(a, b) ==
    \/ a.task < b.task
    \/ a.task = b.task /\ KindPrecedence(a.kind) < KindPrecedence(b.kind)
    \/ a.task = b.task /\ a.kind = b.kind /\ ReasonRank(a.reason) < ReasonRank(b.reason)
    \/ a.task = b.task /\ a.kind = b.kind /\ a.reason = b.reason /\ a.cause < b.cause

RECURSIVE InsertEvent(_, _)
InsertEvent(e, s) ==
    IF s = <<>> THEN <<e>>
    ELSE IF EventLess(e, Head(s)) THEN <<e>> \o s
         ELSE <<Head(s)>> \o InsertEvent(e, Tail(s))

\* variant: the events are left in the order in which they were recorded
Canonicalize_AsRecorded(evs) == evs

RECURSIVE Canonicalize(_)
Canonicalize(evs) ==
    IF evs = <<>> THEN <<>>
    ELSE InsertEvent(Head(evs), Canonicalize(Tail(evs)))

\* the deferred TaskSkipped events, emitted from the skipped-task -> cause map
RECURSIVE SkipEvents(_, _)
SkipEvents(sc, ts) ==
    IF ts = <<>> THEN <<>>
    ELSE IF sc[Head(ts)] # 0
         THEN <<Ev("TaskSkipped", Head(ts), "UpstreamFailed", sc[Head(ts)])>> \o SkipEvents(sc, Tail(ts))
         ELSE SkipEvents(sc, Tail(ts))

\* ------------------------------------------------------------ Init
NoRetval == [kind |-> "none", err |-> ""]

NoCur == [name |-> 0, call |-> ""]

Plans ==
    {[present |-> FALSE, Decisions |-> [t \in Tasks |-> DecisionExecute]]} \cup
    {[present |-> TRUE, Decisions |-> d] : d \in [Tasks -> {DecisionExecute, DecisionReuseCache}]}

\* the executor after NewExecutor, for a graph, a plan and a way of running it
Start ==
    /\ mode \in {"serial", "parallel"}
    /\ concurrency \in (IF mode = "serial" THEN {1} ELSE 1..MaxWorkers)
    /\ edges \in Graphs
    /\ plan \in Plans
    /\ runner \in [probe : {[t \in Tasks |-> "?"]}, out : {[t \in Tasks |-> "?"]},
                    faulty : BOOLEAN]
    /\ state = [t \in Tasks |-> TaskPending]
    /\ order = <<>>
    /\ exitCodes = EmptyMap
    /\ pc = IF mode = "serial" THEN "poll" ELSE "dispatch"
    /\ cur = NoCur
    /\ depth = 0
    /\ nextToStart = 0
    /\ inFlight = 0
    /\ workCh = <<>>
    /\ busy = {}
    /\ doneCh = <<>>
    /\ closed = FALSE
    /\ retval = NoRetval
    /\ calls = [probe |-> [t \in Tasks |-> 0], run |-> [t \in Tasks |-> 0],
                restore |-> [t \in Tasks |-> 0], locked |-> [t \in Tasks |-> 0]]
    /\ events = <<>>
    /\ skipCause = [t \in Tasks |-> 0]
    /\ PlannerIdle
    /\ CliIdle

\* a run with a well-behaved runner under a context that is never cancelled
Init ==
    /\ Start
    /\ ctx = "live"
    /\ ~runner.faulty

\* a run with a runner that may return errors and nil results, under a context
\* that may be cancelled
FaultInit ==
    /\ Start
    /\ ctx = "live"
    /\ runner.faulty

\* ------------------------------------------------------------ commit
\* The commit of a result with exit code `code` for the Running task `name`:
\* Transition(Running -> Completed) on exit code 0, FailAndPropagate otherwise.
\* Yields the new state map, the events recorded and the new skip causes.
\* variant: the exit code is not looked at, every result commits as Completed
CommitResult_AnyExitCompletes(st, sc, name, code) ==
    LET tr == Transition(st, name, TaskRunning, TaskCompleted)
    IN [ok |-> tr.ok, st |-> tr.st, ev |-> <<Ev("TaskExecuted", name, "", 0)>>, sc |-> sc]

\* variant: a failure marks the task Failed but is not propagated downstream
CommitResult_NoPropagation(st, sc, name, code) ==
    LET tr == Transition(st, name, TaskRunning, IF code = 0 THEN TaskCompleted ELSE TaskFailed)
    IN [ok |-> tr.ok, st |-> tr.st,
        ev |-> IF code = 0 THEN <<Ev("TaskExecuted", name, "", 0)>>
               ELSE <<Ev("TaskFailed", name, "", 0)>>,
        sc |-> sc]

\* variant: a successful restoration is recorded like a fresh execution
CommitResult_RestoredAsExecuted(st, sc, name, code) ==
    IF code = 0
    THEN LET tr == Transition(st, name, TaskRunning, TaskCompleted)
         IN [ok |-> tr.ok, st |-> tr.st, ev |-> <<Ev("TaskExecuted", name, "", 0)>>, sc |-> sc]
    ELSE LET fp == FailAndPropagate(edges, st, name)
         IN [ok |-> fp.ok, st |-> fp.st,
             ev |-> <<Ev("TaskFailed", name, "", 0)>>,
             sc |-> RecordSkipCauses(edges, fp.st, sc, name)]

CommitResult(st, sc, name, code) ==
    IF code = 0
    THEN LET tr == Transition(st, name, TaskRunning, TaskCompleted)
         IN [ok |-> tr.ok, st |-> tr.st,
             ev |-> IF plan.present /\ plan.Decisions[name] = DecisionReuseCache
                    THEN <<Ev("TaskArtifactsRestored", name, "CacheRestore", 0)>>
                    ELSE <<Ev("TaskExecuted", name, "", 0)>>,
             sc |-> sc]
    ELSE LET fp == FailAndPropagate(edges, st, name)
         IN [ok |-> fp.ok, st |-> fp.st,
             ev |-> <<Ev("TaskFailed", name, "", 0)>>,
             sc |-> RecordSkipCauses(edges, fp.st, sc, name)]

Return(kind, err) == [kind |-> kind, err |-> err]

\* ------------------------------------------------------------ RunSerial
parVars == <<depth, nextToStart, inFlight, workCh, busy, doneCh, closed>>

\* the scheduler has nothing ready: return the graph result, or the
\* "no ready tasks but graph not finished" error
SerialFinish ==
    /\ mode = "serial"
    /\ pc = "poll"
    /\ GetReadyTasks(edges, state) = <<>>
    /\ pc' = "done"
    /\ IF \A t \in Tasks : IsTerminal(state[t])
       THEN /\ retval' = Return("result", "")
            /\ events' = events \o SkipEvents(skipCause, SortedSeq(Tasks))
       ELSE /\ retval' = Return("error", "no ready tasks but graph not finished")
            /\ UNCHANGED events
    /\ UNCHANGED <<plannerVars, cliVars>>
    /\ UNCHANGED <<ctx, mode, concurrency, edges, plan, runner, state, order, exitCodes, cur,
                   parVars, calls, skipCause>>

\* one pass of the loop up to the point where the lock is released: take the
\* first ready task, then start it (plan decision, or probe miss) or commit a
\* probe hit
SerialPoll ==
    /\ mode = "serial"
    /\ pc = "poll"
    /\ GetReadyTasks(edges, state) # <<>>
    /\ UNCHANGED <<plannerVars, cliVars>>
    /\ UNCHANGED <<ctx, mode, concurrency, edges, plan, order, parVars, skipCause>>
    /\ LET next == GetReadyTasks(edges, state)[1]
           decision == plan.Decisions[next]
           planned == plan.present /\ decision \in {DecisionReuseCache, DecisionExecute}
           start == Transition(state, next, TaskPending, TaskRunning)
           hit == Transition(state, next, TaskPending, TaskCached)
       IN \E ans \in (IF planned THEN {"none"} ELSE ProbeAnswers(next)) :
            LET tr == IF ans = "hit" THEN hit ELSE start
            IN /\ calls' = IF planned THEN calls ELSE BumpLocked(calls, "probe", next)
               /\ runner' = IF planned THEN runner ELSE [runner EXCEPT !.probe[next] = ans]
               /\ IF ~tr.ok
                  THEN /\ pc' = "done"
                       /\ retval' = Return("error", "invalid transition")
                       /\ UNCHANGED <<state, exitCodes, cur, events>>
                  ELSE /\ state' = tr.st
                       /\ UNCHANGED retval
                       /\ IF ans = "hit"
                          THEN \* default mode, probe hit: Pending -> Cached
                               /\ exitCodes' = MapPut(exitCodes, next, 0)
                               /\ events' = events \o
                                    <<Ev("TaskCached", next, "CacheHit", 0),
                                      Ev("TaskArtifactsRestored", next, "CacheReplay", 0)>>
                               /\ UNCHANGED <<pc, cur>>
                          ELSE \* Pending -> Running, the runner call follows outside the lock
                               /\ pc' = "exec"
                               /\ cur' = [name |-> next,
                                          call |-> IF planned /\ decision = DecisionReuseCache
                                                   THEN "restore" ELSE "run"]
                               /\ events' = IF planned /\ decision = DecisionReuseCache
                                            THEN Append(events, Ev("TaskCached", next, "PlannedReuseCache", 0))
                                            ELSE events
                               /\ UNCHANGED exitCodes

\* the rest of the pass: the runner call made outside the lock (Restore or Run)
\* and the commit of its result under the lock
SerialExec ==
    /\ mode = "serial"
    /\ pc = "exec"
    /\ UNCHANGED <<plannerVars, cliVars>>
    /\ UNCHANGED <<ctx, mode, concurrency, edges, plan, parVars>>
    /\ \E out \in CallAnswers(cur.call, cur.name) :
         LET next == cur.name
             \* a failed or nil restoration is recorded with exit code 1
             code == IF out \in {"err", "nil"} THEN 1 ELSE ExitCodeOf(out)
             c == CommitResult(state, skipCause, next, code)
         IN /\ calls' = Bump(calls, cur.call, next)
            /\ runner' = [runner EXCEPT !.out[next] = out]
            /\ cur' = NoCur
            /\ IF cur.call = "run" /\ out \in {"err", "nil"}
               THEN \* Run returned an error or a nil result: executor error
                    /\ pc' = "done"
                    /\ retval' = Return("error", IF out = "err" THEN "executing: runner error"
                                                 ELSE "executing: nil result")
                    /\ UNCHANGED <<state, order, exitCodes, events, skipCause>>
               ELSE /\ order' = Append(order, next)
                    /\ exitCodes' = MapPut(exitCodes, next, code)
                    /\ IF c.ok
                       THEN /\ state' = c.st
                            /\ events' = events \o c.ev
                            /\ skipCause' = c.sc
                            /\ pc' = "poll"
                            /\ UNCHANGED retval
                       ELSE /\ pc' = "done"
                            /\ retval' = Return("error", "invalid transition")
                            /\ UNCHANGED <<state, events, skipCause>>

\* ------------------------------------------------------------ RunParallel
\* variant: only the first depth stage is run
MaxDepthOf_FirstStageOnly(E) == 0

\* maxDepth: the largest depth of a task
MaxDepthOf(E) ==
    LET ds == {Depth(E, t) : t \in Tasks}
    IN CHOOSE d \in ds : \A x \in ds : x <= d

\* variant: the names of a depth are taken in descending order
ByDepth_Descending(E, d) ==
    LET q == SortedSeq({t \in Tasks : Depth(E, t) = d})
    IN [i \in 1..Len(q) |-> q[Len(q) + 1 - i]]

\* byDepth[d]: the names of the tasks at depth d, sorted
ByDepth(E, d) == SortedSeq({t \in Tasks : Depth(E, t) = d})

depsSatisfied(t) == \A p \in Upstream(edges, t) : IsSuccessful(state[p])

names == ByDepth(edges, depth)

\* variant: the dispatch loop goes on whatever is in flight
dispatchMore_IgnoreInFlight == nextToStart < Len(names)

\* the condition of the dispatch loop
dispatchMore == inFlight < concurrency /\ nextToStart < Len(names)

\* variant: the stage ends when every name was scanned, in-flight work or not
stageDone_IgnoreInFlight == nextToStart >= Len(names)

stageDone == nextToStart >= Len(names) /\ inFlight = 0

\* variant: the cache is probed on the fly whether or not there is a plan
probeNow_Always == TRUE

\* on-the-fly probing happens only without a plan
probeNow == ~plan.present

WorkItem(name, reuseCache) == [name |-> name, reuseCache |-> reuseCache]

WorkResult(name, result) == [name |-> name, result |-> result]

\* a worker goroutine can take the next item from workCh
WorkerCanReceive == workCh # <<>> /\ Cardinality(busy) < concurrency

\* a worker goroutine holding an item can send its result: doneCh has room
WorkerCanSend == busy # {} /\ Len(doneCh) < concurrency

\* every worker goroutine has left its loop: wg.Wait() returns
WorkersStopped == workCh = <<>> /\ busy = {}

\* an error return of RunParallel: stopWorkers() first, then return nil, err
ParAbort(err) ==
    /\ closed' = TRUE
    /\ pc' = "stopping"
    /\ retval' = Return("error", err)

\* one iteration of the dispatch loop (for inFlight < concurrency && nextToStart < len(names)),
\* made while holding the lock; an iteration that sends on workCh waits for
\* room in the buffer
ParDispatch ==
    /\ mode = "parallel"
    /\ pc = "dispatch"
    /\ dispatchMore
    /\ UNCHANGED <<plannerVars, cliVars>>
    /\ UNCHANGED <<ctx, mode, concurrency, edges, plan, cur, depth, busy, doneCh, skipCause>>
    /\ LET name == names[nextToStart + 1]
           st == state[name]
           reuseCache == plan.present /\ plan.Decisions[name] = DecisionReuseCache
           start == Transition(state, name, TaskPending, TaskRunning)
           hit == Transition(state, name, TaskPending, TaskCached)
       IN IF IsTerminal(st)
          THEN \* already terminal (skipped by an earlier failure): never execute
               /\ nextToStart' = nextToStart + 1
               /\ UNCHANGED <<runner, state, order, exitCodes, inFlight, workCh, closed, pc,
                              retval, calls, events>>
          ELSE IF st # TaskPending
          THEN /\ ParAbort("unexpected non-pending state")
               /\ UNCHANGED <<runner, state, order, exitCodes, nextToStart, inFlight, workCh,
                              calls, events>>
          ELSE IF ~depsSatisfied(name)
          THEN /\ ParAbort("pending but dependencies are not successful")
               /\ UNCHANGED <<runner, state, order, exitCodes, nextToStart, inFlight, workCh,
                              calls, events>>
          ELSE \E ans \in (IF probeNow THEN ProbeAnswers(name) ELSE {"none"}) :
                 LET tr == IF ans = "hit" THEN hit ELSE start
                 IN /\ calls' = IF probeNow THEN BumpLocked(calls, "probe", name) ELSE calls
                    /\ runner' = IF probeNow THEN [runner EXCEPT !.probe[name] = ans] ELSE runner
                    /\ IF ~tr.ok
                       THEN /\ ParAbort("invalid transition")
                            /\ UNCHANGED <<state, order, exitCodes, nextToStart, inFlight,
                                           workCh, events>>
                       ELSE /\ state' = tr.st
                            /\ nextToStart' = nextToStart + 1
                            /\ UNCHANGED <<closed, pc, retval>>
                            /\ IF ans = "hit"
                               THEN /\ exitCodes' = MapPut(exitCodes, name, 0)
                                    /\ events' = events \o
                                         <<Ev("TaskCached", name, "CacheHit", 0),
                                           Ev("TaskArtifactsRestored", name, "CacheReplay", 0)>>
                                    /\ UNCHANGED <<order, inFlight, workCh>>
                               ELSE /\ order' = Append(order, name)
                                    /\ inFlight' = inFlight + 1
                                    /\ events' = IF reuseCache
                                                 THEN Append(events, Ev("TaskCached", name, "PlannedReuseCache", 0))
                                                 ELSE events
                                    /\ UNCHANGED exitCodes
                                    \* workCh <- workItem{...}
                                    /\ Len(workCh) < concurrency
                                    /\ workCh' = Append(workCh, WorkItem(name, reuseCache))

\* the dispatch loop has ended: is this depth stage done?
ParStageEnd ==
    /\ mode = "parallel"
    /\ pc = "dispatch"
    /\ ~dispatchMore
    /\ UNCHANGED <<plannerVars, cliVars>>
    /\ UNCHANGED <<ctx, mode, concurrency, edges, plan, runner, state, order, exitCodes, cur,
                   inFlight, workCh, busy, doneCh, calls, events, skipCause>>
    /\ IF stageDone
       THEN IF depth < MaxDepthOf(edges)
            THEN /\ depth' = depth + 1
                 /\ nextToStart' = 0
                 /\ UNCHANGED <<pc, closed, retval>>
            ELSE \* all stages done: stopWorkers(), then return the graph result
                 /\ closed' = TRUE
                 /\ pc' = "stopping"
                 /\ retval' = Return("result", "")
                 /\ UNCHANGED <<depth, nextToStart>>
       ELSE /\ pc' = "select"
            /\ UNCHANGED <<depth, nextToStart, closed, retval>>

\* case r := <-doneCh: commit one completion under the lock
ParCompletion ==
    /\ mode = "parallel"
    /\ pc = "select"
    /\ doneCh # <<>>
    /\ UNCHANGED <<plannerVars, cliVars>>
    /\ UNCHANGED <<ctx, mode, concurrency, edges, plan, runner, order, cur, depth, nextToStart,
                   workCh, busy, calls>>
    /\ doneCh' = Tail(doneCh)
    /\ LET r == Head(doneCh)
           code == ExitCodeOf(r.result)
           c == CommitResult(state, skipCause, r.name, code)
       IN IF r.result = "err"
          THEN /\ ParAbort("executing: runner error")
               /\ UNCHANGED <<state, exitCodes, inFlight, events, skipCause>>
          ELSE IF r.result = "nil"
          THEN /\ ParAbort("executing: nil result")
               /\ UNCHANGED <<state, exitCodes, inFlight, events, skipCause>>
          ELSE IF state[r.name] # TaskRunning
          THEN /\ ParAbort("completion but state is not running")
               /\ UNCHANGED <<state, exitCodes, inFlight, events, skipCause>>
          ELSE /\ exitCodes' = MapPut(exitCodes, r.name, code)
               /\ IF c.ok
                  THEN /\ state' = c.st
                       /\ events' = events \o c.ev
                       /\ skipCause' = c.sc
                       /\ inFlight' = inFlight - 1
                       /\ pc' = "dispatch"
                       /\ UNCHANGED <<closed, retval>>
                  ELSE /\ ParAbort("invalid transition")
                       /\ UNCHANGED <<state, inFlight, events, skipCause>>

\* stopWorkers() returns once every worker goroutine has left its loop
\* (wg.Wait()); RunParallel then returns
ParReturn ==
    /\ mode = "parallel"
    /\ pc = "stopping"
    /\ WorkersStopped
    /\ pc' = "done"
    /\ events' = IF retval.kind = "result"
                 THEN events \o SkipEvents(skipCause, SortedSeq(Tasks))
                 ELSE events
    /\ UNCHANGED <<plannerVars, cliVars>>
    /\ UNCHANGED <<ctx, mode, concurrency, edges, plan, runner, state, order, exitCodes, cur,
                   depth, nextToStart, inFlight, workCh, busy, doneCh, closed, retval,
                   calls, skipCause>>

\* a worker goroutine receives the next item (for w := range workCh)
WorkerReceive ==
    /\ mode = "parallel"
    /\ WorkerCanReceive
    /\ busy' = busy \cup {Head(workCh)}
    /\ workCh' = Tail(workCh)
    /\ UNCHANGED <<plannerVars, cliVars>>
    /\ UNCHANGED <<ctx, mode, concurrency, edges, plan, runner, state, order, exitCodes, pc, cur,
                   depth, nextToStart, inFlight, doneCh, closed, retval, calls, events,
                   skipCause>>

\* variant: the worker passes a Restore error on as it is
WorkerResult_PassError(w, out) == out

\* what a worker publishes for item w when the runner answers out: a Restore
\* error becomes a result with exit code 1, everything else is passed on
WorkerResult(w, out) ==
    IF w.reuseCache /\ out = "err" THEN "exit1" ELSE out

\* a worker goroutine calls the runner for its item and sends the result on doneCh
WorkerRun ==
    /\ mode = "parallel"
    /\ WorkerCanSend
    /\ \E w \in busy :
         LET call == IF w.reuseCache THEN "restore" ELSE "run"
         IN \E out \in CallAnswers(call, w.name) :
              /\ calls' = Bump(calls, call, w.name)
              /\ runner' = [runner EXCEPT !.out[w.name] = out]
              /\ doneCh' = Append(doneCh, WorkResult(w.name, WorkerResult(w, out)))
              /\ busy' = busy \ {w}
    /\ UNCHANGED <<plannerVars, cliVars>>
    /\ UNCHANGED <<ctx, mode, concurrency, edges, plan, state, order, exitCodes, pc, cur,
                   depth, nextToStart, inFlight, workCh, closed, retval, events, skipCause>>

Next ==
    \/ SerialFinish
    \/ SerialPoll
    \/ SerialExec
    \/ ParDispatch
    \/ ParStageEnd
    \/ ParCompletion
    \/ ParReturn
    \/ WorkerReceive
    \/ WorkerRun

Spec == Init /\ [][Next]_vars

\* ------------------------------------------------------------ cancellation
\* the caller cancels the context, at any moment before the run has returned
Cancel ==
    /\ ctx = "live"
    /\ pc # "done"
    /\ ctx' = "cancelled"
    /\ UNCHANGED <<plannerVars, cliVars>>
    /\ UNCHANGED <<mode, concurrency, edges, plan, runner, state, order, exitCodes, pc, cur,
                   depth, nextToStart, inFlight, workCh, busy, doneCh, closed, retval,
                   calls, events, skipCause>>

\* case <-ctx.Done() of the coordinator's select: stopWorkers(), then return
\* the cancellation error; doneCh is not read again
ParCancel ==
    /\ mode = "parallel"
    /\ pc = "select"
    /\ ctx = "cancelled"
    /\ ParAbort("execution cancelled")
    /\ UNCHANGED <<plannerVars, cliVars>>
    /\ UNCHANGED <<ctx, mode, concurrency, edges, plan, runner, state, order, exitCodes, cur,
                   depth, nextToStart, inFlight, workCh, busy, doneCh, calls, events,
                   skipCause>>

FaultNext ==
    \/ Next
    \/ Cancel
    \/ ParCancel

FaultSpec == FaultInit /\ [][FaultNext]_vars

\* ============================================================ properties
Returned == pc = "done"

RunningTasks == {t \in Tasks : state[t] = TaskRunning}

FailedTasks == {t \in Tasks : state[t] = TaskFailed}

TotalCalls(t) == calls.probe[t] + calls.run[t] + calls.restore[t]

\* C1: in every step of RunSerial and RunParallel, a task whose state changes
\* makes one of the transitions Pending->Running, Pending->Cached,
\* Pending->Skipped, Running->Completed, Running->Failed, and it becomes
\* Completed only with a recorded exit code 0; so no terminal state is left.
C1_TransitionsAppendOnly ==
    [][\A t \in Tasks :
          state'[t] # state[t] =>
             /\ <<state[t], state'[t]>> \in
                   {<<TaskPending, TaskRunning>>, <<TaskPending, TaskCached>>,
                    <<TaskPending, TaskSkipped>>, <<TaskRunning, TaskCompleted>>,
                    <<TaskRunning, TaskFailed>>}
             /\ state'[t] = TaskCompleted =>
                   (t \in DOMAIN exitCodes' /\ exitCodes'[t] = 0)]_vars

\* a finished run in which all five transitions were made, one task failing
\* with a non-zero exit code
C1_Witness ==
    /\ Returned
    /\ \E a, b, c \in Tasks :
          /\ state[a] = TaskCompleted /\ exitCodes[a] = 0
          /\ state[b] = TaskFailed /\ exitCodes[b] # 0 /\ runner.out[b] = "exit1"
          /\ state[c] = TaskSkipped

\* C2: a task leaves Pending for Running or Cached only in a state in which
\* each of its direct upstream tasks is Completed or Cached (serial and
\* parallel, with and without a plan).
C2_StartOnlyWhenUpstreamSucceeded ==
    [][\A t \in Tasks :
          (state[t] = TaskPending /\ state'[t] \in {TaskRunning, TaskCached}) =>
             \A p \in Upstream(edges, t) : state[p] \in {TaskCompleted, TaskCached}]_vars

\* a task with two direct upstreams has been started, one upstream Completed
\* and the other Cached
C2_Witness ==
    \E t, p, q \in Tasks :
        /\ <<p, t>> \in edges /\ <<q, t>> \in edges
        /\ state[p] = TaskCompleted /\ state[q] = TaskCached
        /\ state[t] = TaskRunning

\* C3: in the step that makes a task Failed, each of its transitive
\* downstream tasks that was Pending becomes Skipped; and once a task is
\* Failed, no step makes a Probe, Run or Restore call for one of its
\* transitive downstream tasks.
C3_FailurePropagates ==
    [][\A f \in Tasks :
          /\ (state[f] # TaskFailed /\ state'[f] = TaskFailed) =>
                \A d \in Descendants(edges, f) :
                    state[d] = TaskPending => state'[d] = TaskSkipped
          /\ state[f] = TaskFailed =>
                \A d \in Descendants(edges, f) :
                    /\ calls'.probe[d] = calls.probe[d]
                    /\ calls'.run[d] = calls.run[d]
                    /\ calls'.restore[d] = calls.restore[d]
                    /\ state'[d] \notin {TaskRunning, TaskCached, TaskCompleted}]_vars

\* a finished run in which a failure skipped a direct and an indirect
\* downstream task, none of which was ever handed to the runner
C3_Witness ==
    /\ Returned
    /\ \E f, d, e \in Tasks :
          /\ <<f, d>> \in edges /\ <<d, e>> \in edges
          /\ state[f] = TaskFailed
          /\ state[d] = TaskSkipped /\ state[e] = TaskSkipped
          /\ TotalCalls(d) = 0 /\ TotalCalls(e) = 0


\* no call of the runner has returned an error or a nil result
RunnerWellBehaved == \A t \in Tasks : runner.out[t] \notin {"err", "nil"}

\* the coordinator's way to its return
PcRank(p) ==
    CASE p = "dispatch" -> 3
      [] p = "select" -> 2
      [] p \in {"poll", "exec", "stopping"} -> 1
      [] p = "done" -> 0

\* what is left to do: depth stages still to come (there are at most NumTasks)
\* and tasks of the stage still to be scanned by the dispatch loop, work items
\* on their way through workCh, a worker and doneCh, tasks not yet started or
\* finished, and the coordinator's way to its return
Measure(st, dp, nts, wch, bsy, dch, p) ==
    5 * ((NumTasks - dp) * (NumTasks + 1) + (NumTasks - nts))
    + 4 * Len(wch) + 3 * Cardinality(bsy) + 2 * Len(dch)
    + 2 * Cardinality({t \in Tasks : st[t] = TaskPending})
    + Cardinality({t \in Tasks : st[t] = TaskRunning})
    + PcRank(p)

\* the run has a next step: the serial loop is at one of its two halves; the
\* coordinator can make a dispatch iteration (a send finds room on workCh),
\* leave the dispatch loop, receive a completion or finish stopWorkers(); or a
\* worker can receive an item or send a result
CanStep ==
    IF mode = "serial"
    THEN pc \in {"poll", "exec"}
    ELSE \/ pc = "dispatch" /\ (Len(workCh) < concurrency \/ ~dispatchMore)
         \/ pc = "select" /\ doneCh # <<>>
         \/ pc = "stopping" /\ WorkersStopped
         \/ WorkerCanReceive
         \/ WorkerCanSend

\* C4: on every acyclic graph, as long as no call of the runner has returned
\* an error or a nil result, RunSerial and RunParallel terminate and return a
\* graph result in which every task is Completed, Cached, Failed or Skipped
\* (tasks may fail on the way): a run can take its first step, every step
\* lowers a non-negative measure of the work left and leads to a state that
\* either has a next step or is the return of such a result.
C4_TerminatesAllTerminal ==
    /\ CanStep
    /\ [][/\ Measure(state', depth', nextToStart', workCh', busy', doneCh', pc')
               < Measure(state, depth, nextToStart, workCh, busy, doneCh, pc)
          /\ Measure(state', depth', nextToStart', workCh', busy', doneCh', pc') >= 0
          /\ (pc' # "done" /\ RunnerWellBehaved') => CanStep'
          /\ (pc' = "done" /\ RunnerWellBehaved') =>
                (retval'.kind = "result" /\ \A t \in Tasks : IsTerminal(state'[t]))]_vars

\* a run of a well-behaved runner has returned its result after a task failed
C4_Witness ==
    /\ Returned /\ retval.kind = "result" /\ RunnerWellBehaved
    /\ \A t \in Tasks : state[t] \in {TaskCompleted, TaskCached, TaskFailed, TaskSkipped}
    /\ \E f, d \in Tasks : state[f] = TaskFailed /\ state[d] = TaskSkipped
    /\ \E t \in Tasks : state[t] = TaskCompleted

\* C5: in parallel mode at most `concurrency` tasks are Running at any time,
\* and the Running tasks all have the same topological depth: no task of a
\* later depth is dispatched while a task of an earlier depth is in flight.
C5_BoundedAndDepthStaged ==
    mode = "parallel" =>
        /\ Cardinality(RunningTasks) <= concurrency
        /\ \A a, b \in RunningTasks : Depth(edges, a) = Depth(edges, b)

\* with a worker to spare, a task whose upstreams have all succeeded is still
\* Pending because a task of an earlier depth is in flight
C5_Witness ==
    /\ mode = "parallel" /\ concurrency >= 2
    /\ Cardinality(RunningTasks) < concurrency
    /\ \E t \in Tasks, r \in RunningTasks :
          /\ state[t] = TaskPending
          /\ Upstream(edges, t) # {} /\ depsSatisfied(t)
          /\ Depth(edges, r) < Depth(edges, t)

\* the answers of the runner decide which tasks succeed and which tasks are
\* handed to a worker, whatever the number of workers
RECURSIVE Succeeds(_)
Succeeds(t) ==
    /\ \A p \in Upstream(edges, t) : Succeeds(p)
    /\ IF ~plan.present /\ runner.probe[t] = "hit" THEN TRUE ELSE runner.out[t] = "exit0"

Handed(t) ==
    /\ \A p \in Upstream(edges, t) : Succeeds(p)
    /\ ~(~plan.present /\ runner.probe[t] = "hit")

\* position of a task in the depth-by-depth, name-within-depth order
Rank(t) == Depth(edges, t) * (NumTasks + 1) + t

RECURSIVE SortByRank(_)
SortByRank(S) ==
    IF S = {} THEN <<>>
    ELSE LET m == CHOOSE x \in S : \A y \in S : Rank(x) <= Rank(y)
         IN <<m>> \o SortByRank(S \ {m})

\* C6: the execution order returned by RunParallel lists the tasks handed to a
\* worker depth by depth and by name within a depth; it is fixed by the graph,
\* the plan and the runner's answers, so it is the same for every number of
\* workers and every interleaving of completions.
C6_DispatchOrderDeterministic ==
    (Returned /\ mode = "parallel" /\ retval.kind = "result") =>
        order = SortByRank({t \in Tasks : Handed(t)})

\* a run with several workers has returned an order that is not the order of
\* the names, after two tasks completed against their dispatch order
C6_Witness ==
    /\ Returned /\ mode = "parallel" /\ retval.kind = "result" /\ concurrency >= 2
    /\ Len(order) = NumTasks
    /\ \E i, j \in DOMAIN order : i < j /\ order[i] > order[j]
    /\ \E i, j \in DOMAIN events :
          /\ i < j
          /\ events[i].kind = "TaskExecuted" /\ events[j].kind = "TaskExecuted"
          /\ Rank(events[i].task) > Rank(events[j].task)

\* the trace recorded by a run with one worker, which handles one task after
\* the other in dispatch order, given the answers of the runner; a task whose
\* answer was never asked for leaves a TaskInvalidated event, which no run records
RECURSIVE OneWorkerTrace(_, _, _, _)
OneWorkerTrace(ts, st, sc, evs) ==
    IF ts = <<>> THEN evs \o SkipEvents(sc, SortedSeq(Tasks))
    ELSE LET t == Head(ts)
             reuseCache == plan.present /\ plan.Decisions[t] = DecisionReuseCache
             out == runner.out[t]
             c == CommitResult([st EXCEPT ![t] = TaskRunning], sc, t, ExitCodeOf(out))
         IN IF IsTerminal(st[t])
            THEN OneWorkerTrace(Tail(ts), st, sc, evs)
            ELSE IF ~plan.present /\ runner.probe[t] = "hit"
            THEN OneWorkerTrace(Tail(ts), [st EXCEPT ![t] = TaskCached], sc,
                     evs \o <<Ev("TaskCached", t, "CacheHit", 0),
                              Ev("TaskArtifactsRestored", t, "CacheReplay", 0)>>)
            ELSE IF out = "?" \/ (~plan.present /\ runner.probe[t] = "?")
            THEN OneWorkerTrace(Tail(ts), [st EXCEPT ![t] = TaskCompleted], sc,
                     Append(evs, Ev("TaskInvalidated", t, "", 0)))
            ELSE OneWorkerTrace(Tail(ts), c.st, c.sc,
                     evs \o (IF reuseCache
                             THEN <<Ev("TaskCached", t, "PlannedReuseCache", 0)>>
                             ELSE <<>>) \o c.ev)

ReferenceTrace ==
    OneWorkerTrace(SortByRank(Tasks), [t \in Tasks |-> TaskPending], [t \in Tasks |-> 0], <<>>)

\* C7: graph, plan and runner fixed, the canonical trace of a run that returns
\* its result is the canonical trace of the run with one worker, for every
\* number of workers and for RunSerial, failures and skips included; the run
\* with one worker records its events in exactly the order of the reference.
C7_CanonicalTraceIndependentOfWorkers ==
    (Returned /\ retval.kind = "result") =>
        /\ Canonicalize(events) = Canonicalize(ReferenceTrace)
        /\ (mode = "parallel" /\ concurrency = 1) => events = ReferenceTrace

\* a run with several workers recorded a failure and a skip, and its events
\* are not in the order in which one worker records them
C7_Witness ==
    /\ Returned /\ retval.kind = "result" /\ mode = "parallel" /\ concurrency >= 2
    /\ events # ReferenceTrace
    /\ \E i, j \in DOMAIN events :
          events[i].kind = "TaskFailed" /\ events[j].kind = "TaskSkipped"

\* the failed tasks whose failure alone implies the skip of d
FailedAncestors(d) == {f \in Tasks : state[f] = TaskFailed /\ d \in Descendants(edges, f)}

MinOf(S) == CHOOSE x \in S : \A y \in S : x <= y

\* C8: a task has a recorded skip cause exactly when it is Skipped, the cause is
\* the smallest of the failed tasks upstream of it, whichever failure was
\* committed first, and the TaskSkipped event of a returned result names it.
C8_SkipCauseIsMinimum ==
    \A d \in Tasks :
        /\ (skipCause[d] # 0) = (state[d] = TaskSkipped)
        /\ state[d] = TaskSkipped =>
              /\ FailedAncestors(d) # {}
              /\ skipCause[d] = MinOf(FailedAncestors(d))
        /\ (Returned /\ retval.kind = "result") =>
              \A i \in DOMAIN events :
                  (events[i].kind = "TaskSkipped" /\ events[i].task = d) =>
                      /\ state[d] = TaskSkipped
                      /\ events[i].cause = MinOf(FailedAncestors(d))
        /\ (Returned /\ retval.kind = "result" /\ state[d] = TaskSkipped) =>
              \E i \in DOMAIN events : events[i].kind = "TaskSkipped" /\ events[i].task = d

\* two upstream tasks of a skipped task failed, the failure of the larger one
\* was committed first, and the recorded cause is the smaller one
C8_Witness ==
    /\ Returned /\ retval.kind = "result"
    /\ \E d, f, g \in Tasks :
          /\ f < g
          /\ {f, g} \subseteq FailedAncestors(d)
          /\ \E i, j \in DOMAIN events :
                /\ i < j
                /\ events[i] = Ev("TaskFailed", g, "", 0)
                /\ events[j] = Ev("TaskFailed", f, "", 0)
          /\ \E k \in DOMAIN events : events[k] = Ev("TaskSkipped", d, "UpstreamFailed", f)

\* C9: with a plan, the runner's Probe is never called: every call made for a
\* task is the one its decision names, Restore for ReuseCache and Run for Execute.
C9_PlanSkipsProbe ==
    plan.present =>
        \A t \in Tasks :
            /\ calls.probe[t] = 0
            /\ plan.Decisions[t] = DecisionReuseCache => calls.run[t] = 0
            /\ plan.Decisions[t] = DecisionExecute => calls.restore[t] = 0

\* a run under a plan has returned after restoring one task and running another
C9_Witness ==
    /\ plan.present /\ Returned /\ retval.kind = "result"
    /\ \E a, b \in Tasks :
          /\ plan.Decisions[a] = DecisionReuseCache /\ calls.restore[a] = 1
          /\ plan.Decisions[b] = DecisionExecute /\ calls.run[b] = 1

\* the tasks whose restoration returned an error
RestoreFailed == {t \in Tasks : calls.restore[t] > 0 /\ runner.out[t] = "err"}

\* C10: a Restore that returns an error never makes RunSerial or RunParallel
\* return an executor error: once its result is committed the task is Failed
\* with exit code 1, and the run returns a graph result in which the task is
\* Failed and all its transitive downstream tasks are Skipped.
C10_RestoreFailureIsTaskFailure ==
    \A t \in RestoreFailed :
        /\ retval.kind # "error"
        /\ state[t] \in {TaskRunning, TaskFailed}
        /\ state[t] = TaskFailed => (t \in DOMAIN exitCodes /\ exitCodes[t] = 1)
        /\ Returned =>
              /\ retval.kind = "result"
              /\ state[t] = TaskFailed
              /\ \A d \in Descendants(edges, t) : state[d] = TaskSkipped

\* a parallel run has returned its result after a failed restoration that
\* skipped a downstream task, other tasks having completed
C10_Witness ==
    /\ Returned /\ mode = "parallel" /\ retval.kind = "result"
    /\ \E t \in RestoreFailed, d \in Tasks :
          /\ state[t] = TaskFailed
          /\ d \in Descendants(edges, t) /\ state[d] = TaskSkipped
    /\ \E c \in Tasks : state[c] = TaskCompleted

\* C11: a nil result returned by Run or Restore for a task is never recorded
\* as a failure of that task, and the run that received it returns an
\* executor error.
C11_NilResultIsExecutorError ==
    \A t \in {n \in Tasks : runner.out[n] = "nil"} :
        /\ state[t] # TaskFailed
        /\ t \notin DOMAIN exitCodes
        /\ Returned => retval.kind = "error"

\* the run has returned the cancellation error
ReturnedCancelled == Returned /\ retval = Return("error", "execution cancelled")

\* C12: once the context is cancelled during a parallel run no task is
\* started any more, and when the run returns the cancellation error every
\* task that was in flight has been committed to a terminal state with its
\* exit code recorded: none is left Running (the runner returning a result
\* for every call).
C12_CancelStopsDispatchCommitsInFlight ==
    [][(mode = "parallel" /\ ctx = "cancelled") =>
          /\ \A t \in Tasks :
                state[t] = TaskPending => state'[t] \notin {TaskRunning, TaskCached}
          /\ (ReturnedCancelled' /\ RunnerWellBehaved') =>
                \A t \in Tasks :
                    /\ state'[t] # TaskRunning
                    /\ calls'.run[t] + calls'.restore[t] > 0 => t \in DOMAIN exitCodes']_vars

\* C13: no step calls the runner (Probe, Run or Restore) while e.mu is held,
\* and a step of a worker goroutine (one that takes or hands back a work item)
\* writes neither the state map nor the result maps nor the order list.
C13_RunnerCalledOutsideLock ==
    [][/\ \A t \in Tasks : calls'.locked[t] = calls.locked[t]
       /\ busy' # busy => UNCHANGED <<state, order, exitCodes, events, skipCause>>]_vars

\* the ReuseCache tasks whose restoration returned exit code 0 and was committed
Restored ==
    {t \in Tasks : /\ plan.present /\ plan.Decisions[t] = DecisionReuseCache
                   /\ calls.restore[t] > 0 /\ runner.out[t] = "exit0"
                   /\ state[t] # TaskRunning}

EventsOf(t, kind) == {i \in DOMAIN events : events[i].task = t /\ events[i].kind = kind}

\* C14 as claimed: a ReuseCache task whose restoration succeeded is in state
\* Cached, with a TaskCached and a TaskArtifactsRestored event and no
\* TaskExecuted event.
C14_RestoredIsCached ==
    \A t \in Restored :
        /\ state[t] = TaskCached
        /\ EventsOf(t, "TaskCached") # {} /\ EventsOf(t, "TaskArtifactsRestored") # {}
        /\ EventsOf(t, "TaskExecuted") = {}

\* C14, amended: a ReuseCache task whose restoration succeeded is committed to
\* Completed (it went Pending -> Running -> Completed, like a task that ran),
\* and it is recorded with one TaskCached event (PlannedReuseCache) and one
\* TaskArtifactsRestored event (CacheRestore) and never with TaskExecuted.
C14_RestoredIsCompleted ==
    \A t \in Restored :
        /\ state[t] = TaskCompleted
        /\ t \in DOMAIN exitCodes /\ exitCodes[t] = 0
        /\ \E i \in EventsOf(t, "TaskCached") :
              EventsOf(t, "TaskCached") = {i} /\ events[i].reason = "PlannedReuseCache"
        /\ \E i \in EventsOf(t, "TaskArtifactsRestored") :
              EventsOf(t, "TaskArtifactsRestored") = {i} /\ events[i].reason = "CacheRestore"
        /\ EventsOf(t, "TaskExecuted") = {}

\* a run has returned after restoring one task and executing a task downstream of it
C14_Witness ==
    /\ Returned /\ retval.kind = "result"
    /\ \E t \in Restored, d \in Tasks :
          /\ <<t, d>> \in edges
          /\ plan.Decisions[d] = DecisionExecute
          /\ state[t] = TaskCompleted /\ state[d] = TaskCompleted
          /\ EventsOf(d, "TaskExecuted") # {}

\* C15: under a plan, a step that starts a task with decision Execute, or
\* calls Run for it, is taken in a state in which every direct upstream task
\* with decision ReuseCache has had its Restore call return exit code 0 and
\* has been committed Completed.
C15_RestoreBeforeDownstreamRuns ==
    [][\A d \in Tasks :
          (/\ plan.present /\ plan.Decisions[d] = DecisionExecute
           /\ \/ state[d] = TaskPending /\ state'[d] = TaskRunning
              \/ calls'.run[d] > calls.run[d]) =>
             \A u \in Upstream(edges, d) :
                 plan.Decisions[u] = DecisionReuseCache =>
                    /\ calls.restore[u] = 1 /\ runner.out[u] = "exit0"
                    /\ state[u] = TaskCompleted
                    /\ u \in DOMAIN exitCodes /\ exitCodes[u] = 0]_vars

\* an Execute task is Running downstream of a restored ReuseCache task, while
\* an unrelated ReuseCache task has been dispatched and is not yet restored
C15_Witness ==
    /\ plan.present
    /\ \E u, d, o \in Tasks :
          /\ <<u, d>> \in edges
          /\ plan.Decisions[u] = DecisionReuseCache /\ plan.Decisions[d] = DecisionExecute
          /\ state[u] = TaskCompleted /\ calls.restore[u] = 1
          /\ state[d] = TaskRunning
          /\ o \notin {u, d} /\ plan.Decisions[o] = DecisionReuseCache
          /\ state[o] = TaskRunning /\ calls.restore[o] = 0

\* C16: a step that makes a task Failed changes, besides, only the states of
\* transitive downstream tasks of it that were Pending, to Skipped: tasks that
\* are terminal already (Skipped by an earlier failure among them) and tasks
\* not downstream of it keep their state; and one step fails one task.
C16_FailureFrame ==
    [][\A f \in Tasks :
          (state[f] # TaskFailed /\ state'[f] = TaskFailed) =>
             /\ state[f] = TaskRunning
             /\ \A t \in Tasks \ {f} :
                   /\ state'[t] # state[t] =>
                         /\ t \in Descendants(edges, f)
                         /\ state[t] = TaskPending /\ state'[t] = TaskSkipped
                   /\ IsTerminal(state[t]) => state'[t] = state[t]]_vars

\* two tasks have failed one after the other, the second failure reaching a
\* task that the first had skipped already
C16_Witness ==
    \E f, g, d \in Tasks :
        /\ f # g
        /\ state[f] = TaskFailed /\ state[g] = TaskFailed
        /\ d \in Descendants(edges, f) /\ d \in Descendants(edges, g)
        /\ state[d] = TaskSkipped
        /\ \E i, j \in DOMAIN events :
              i < j /\ events[i] = Ev("TaskFailed", f, "", 0)
                    /\ events[j] = Ev("TaskFailed", g, "", 0)

\* ============================================================ incremental planner
\* ------------------------------------------------------------ strings
\* Every string the planner orders or serializes, in Go's string order
\* (byte-wise), with its length in bytes.
StringTable ==
    << [s |-> "", n |-> 0],
       [s |-> "CommandChanged", n |-> 14],
       [s |-> "DeclaredInputs", n |-> 14],
       [s |-> "DependencyInvalidated", n |-> 21],
       [s |-> "EnvChanged", n |-> 10],
       [s |-> "EnvName", n |-> 7],
       [s |-> "GraphStructureChanged", n |-> 21],
       [s |-> "InputChanged", n |-> 12],
       [s |-> "InputName", n |-> 9],
       [s |-> "OutputChanged", n |-> 13],
       [s |-> "OutputName", n |-> 10],
       [s |-> "Upstream", n |-> 8],
       [s |-> "UpstreamTaskID", n |-> 14],
       [s |-> "a", n |-> 1],
       [s |-> "b", n |-> 1],
       [s |-> "c", n |-> 1],
       [s |-> "changed", n |-> 7],
       [s |-> "d", n |-> 1],
       [s |-> "e", n |-> 1],
       [s |-> "missing", n |-> 7],
       [s |-> "x", n |-> 1],
       [s |-> "y", n |-> 1],
       [s |-> "z", n |-> 1] >>

\* a < b on Go strings
StrLess(a, b) ==
    LET rank(s) == CHOOSE i \in DOMAIN StringTable : StringTable[i].s = s
    IN  rank(a) < rank(b)

Elems(seq) == {seq[i] : i \in DOMAIN seq}

\* sort.Strings: the strings of s in ascending order
RECURSIVE SortStrings(_)
SortStrings(s) ==
    IF Len(s) <= 1 THEN s
    ELSE LET sorted == SortStrings(SubSeq(s, 1, Len(s) - 1))
             x == s[Len(s)]
             k == Cardinality({i \in DOMAIN sorted : ~StrLess(x, sorted[i])})
         IN  SubSeq(sorted, 1, k) \o <<x>> \o SubSeq(sorted, k + 1, Len(sorted))

\* the keys of a Go map, collected in iteration order and then sorted
SortedKeys(S) ==
    <<>> \o [i \in 1..Cardinality(S) |->
                CHOOSE x \in S : Cardinality({y \in S : StrLess(y, x)}) = i - 1]

\* the loop that drops every element equal to its predecessor
RECURSIVE DedupAdjacent(_)
DedupAdjacent(s) ==
    IF Len(s) <= 1 THEN s
    ELSE LET out == DedupAdjacent(SubSeq(s, 1, Len(s) - 1))
         IN  IF s[Len(s)] = out[Len(out)] THEN out ELSE Append(out, s[Len(s)])

normalizeStringSet(in) ==
    IF Len(in) = 0 THEN <<>> ELSE DedupAdjacent(SortStrings(in))

\* ------------------------------------------------------------ invalidation reasons
\* InvalidationReason{Type, SourceTaskID, Details}; a detail is [Key, Value]
InvalidationReason(t, src, details) == [Type |-> t, SourceTaskID |-> src, Details |-> details]

canonical(r) ==
    LET detailLess(a, b) ==
            IF a.Key # b.Key THEN StrLess(a.Key, b.Key) ELSE StrLess(a.Value, b.Value)
        RECURSIVE sort(_)
        sort(s) ==
            IF Len(s) <= 1 THEN s
            ELSE LET sorted == sort(SubSeq(s, 1, Len(s) - 1))
                     x == s[Len(s)]
                     k == Cardinality({i \in DOMAIN sorted : ~detailLess(x, sorted[i])})
                 IN  SubSeq(sorted, 1, k) \o <<x>> \o SubSeq(sorted, k + 1, Len(sorted))
    IN  IF Len(r.Details) = 0 THEN r
        ELSE [r EXCEPT !.Details = DedupAdjacent(sort(r.Details))]

CanonicalizeReasons_Unsorted(rs) ==
    IF Len(rs) = 0 THEN <<>>
    ELSE DedupAdjacent([i \in DOMAIN rs |-> canonical(rs[i])])

\* InvalidationReasons.Canonicalize, with reasonTypeOrder, compareDetails and
\* the less function of its sort; reasonEqual is equality of canonical reasons
CanonicalizeReasons(rs) ==
    LET reasonTypeOrder(t) ==
            CASE t = "InputChanged" -> 10
              [] t = "EnvChanged" -> 20
              [] t = "DependencyInvalidated" -> 30
              [] t = "GraphStructureChanged" -> 40
              [] t = "CommandChanged" -> 50
              [] t = "OutputChanged" -> 60
              [] OTHER -> 1000
        compareDetails(a, b) ==
            LET min == IF Len(b) < Len(a) THEN Len(b) ELSE Len(a)
                differ == {i \in 1..min : a[i] # b[i]}
            IN  IF differ = {} THEN Len(a) < Len(b)
                ELSE LET i == CHOOSE x \in differ : \A y \in differ : x <= y
                     IN  IF a[i].Key # b[i].Key THEN StrLess(a[i].Key, b[i].Key)
                         ELSE StrLess(a[i].Value, b[i].Value)
        reasonLess(a, b) ==
            IF reasonTypeOrder(a.Type) # reasonTypeOrder(b.Type)
            THEN reasonTypeOrder(a.Type) < reasonTypeOrder(b.Type)
            ELSE IF a.SourceTaskID # b.SourceTaskID
            THEN StrLess(a.SourceTaskID, b.SourceTaskID)
            ELSE compareDetails(a.Details, b.Details)
        RECURSIVE sort(_)
        sort(s) ==
            IF Len(s) <= 1 THEN s
            ELSE LET sorted == sort(SubSeq(s, 1, Len(s) - 1))
                     x == s[Len(s)]
                     k == Cardinality({i \in DOMAIN sorted : ~reasonLess(x, sorted[i])})
                 IN  SubSeq(sorted, 1, k) \o <<x>> \o SubSeq(sorted, k + 1, Len(sorted))
    IN  IF Len(rs) = 0 THEN <<>>
        ELSE DedupAdjacent(sort([i \in DOMAIN rs |-> canonical(rs[i])]))

\* ------------------------------------------------------------ binary encoding
\* A buffer is a sequence of numbers: a uint32 or a byte is one number, and the
\* bytes of a string are one number, the string's place in StringTable.
\* The buffer <<-1>> stands for a returned error.
writeString(s) ==
    LET i == CHOOSE j \in DOMAIN StringTable : StringTable[j].s = s
    IN  <<StringTable[i].n, i>>

RECURSIVE Concat(_)
Concat(bufs) == IF bufs = <<>> THEN <<>> ELSE Head(bufs) \o Concat(Tail(bufs))

\* InvalidationReasons.MarshalBinary, with InvalidationReason.MarshalBinary and
\* InvalidationReason.Validate
ReasonsMarshalBinary(reasons) ==
    LET Validate(r) ==
            /\ r.Type # ""
            /\ ~(r.Type = "DependencyInvalidated" /\ r.SourceTaskID = "")
            /\ \A i \in DOMAIN r.Details : r.Details[i].Key # ""
        write(r) ==
            IF ~Validate(r) THEN <<-1>>
            ELSE writeString(r.Type)
                 \o (IF r.SourceTaskID # "" THEN <<1>> \o writeString(r.SourceTaskID)
                                            ELSE <<0>>)
                 \o <<Len(r.Details)>>
                 \o Concat([i \in DOMAIN r.Details |->
                               writeString(r.Details[i].Key)
                               \o writeString(r.Details[i].Value)])
        MarshalBinary(reason) == write(canonical(reason))
        writeAll(b) ==
            IF \E i \in DOMAIN b : b[i] = <<-1>> THEN <<-1>>
            ELSE <<Len(b)>> \o Concat([i \in DOMAIN b |-> <<Len(b[i])>> \o b[i]])
        marshalAll(rs) == writeAll([i \in DOMAIN rs |-> MarshalBinary(rs[i])])
    IN  marshalAll(CanonicalizeReasons(reasons))

\* InvalidationMap.MarshalBinary
MapMarshalBinary(m) ==
    LET writeAll(keys, reasonsBytes) ==
            IF \E i \in DOMAIN keys : reasonsBytes[i] = <<-1>> THEN <<-1>>
            ELSE <<Len(keys)>>
                 \o Concat([i \in DOMAIN keys |->
                               writeString(keys[i]) \o <<Len(reasonsBytes[i])>>
                               \o reasonsBytes[i]])
        marshalAll(keys) ==
            writeAll(keys, [i \in DOMAIN keys |-> ReasonsMarshalBinary(m[keys[i]].Reasons)])
    IN  IF DOMAIN m = {} THEN <<>> ELSE marshalAll(SortedKeys(DOMAIN m))

\* ------------------------------------------------------------ graph snapshots
\* A *GraphSnapshot is [nil |-> BOOLEAN, Nodes |-> map from node name to
\* NodeSnapshot]; a nil pointer is [nil |-> TRUE, Nodes |-> <<>>].
NodeSnapshot(name, taskHash, declaredInputs, inputHash, env, command, outputs, upstream) ==
    [Name |-> name, TaskHash |-> taskHash, DeclaredInputs |-> declaredInputs,
     InputHash |-> inputHash, Env |-> env, Command |-> command, Outputs |-> outputs,
     Upstream |-> upstream]

\* the direct parents of a node as the planner reads them
Parents(graph, name) == Elems(normalizeStringSet(graph.Nodes[name].Upstream))

\* topoOrder: the loop over outgoing[n]
RECURSIVE topoRelease(_, _, _)
topoRelease(ms, ind, ready) ==
    IF ms = <<>> THEN [ind |-> ind, ready |-> ready]
    ELSE LET m == Head(ms)
             ind2 == [ind EXCEPT ![m] = @ - 1]
         IN  topoRelease(Tail(ms), ind2,
                         IF ind2[m] = 0 THEN SortStrings(Append(ready, m)) ELSE ready)

\* topoOrder: the loop over ready
RECURSIVE topoLoop(_, _, _, _)
topoLoop(outgoing, ind, ready, ordered) ==
    IF ready = <<>> THEN ordered
    ELSE LET n == Head(ready)
             r == topoRelease(outgoing[n], ind, Tail(ready))
         IN  topoLoop(outgoing, r.ind, r.ready, Append(ordered, n))

topoOrder_Lexical(graph) == SortedKeys(DOMAIN graph.Nodes)

\* topoOrder, applied to names, outgoing and indeg as CalculateInvalidation
\* and BuildIncrementalPlan build them from the snapshot
topoOrder(graph) ==
    LET outgoing(nodeNames) ==
            [p \in Elems(nodeNames) |->
                SortStrings(SelectSeq(nodeNames, LAMBDA c : p \in Parents(graph, c)))]
        indeg(nodeNames) ==
            [n \in Elems(nodeNames) |->
                Cardinality({p \in Parents(graph, n) : p \in DOMAIN graph.Nodes})]
        ready(nodeNames, ind) == SortStrings(SelectSeq(nodeNames, LAMBDA n : ind[n] = 0))
        fallback(nodeNames, ordered) ==
            IF Len(ordered) # Len(nodeNames) THEN SortStrings(nodeNames) ELSE ordered
        run(nodeNames, out, ind) ==
            fallback(nodeNames, topoLoop(out, ind, ready(nodeNames, ind), <<>>))
        build(nodeNames) == run(nodeNames, outgoing(nodeNames), indeg(nodeNames))
    IN  build(SortedKeys(DOMAIN graph.Nodes))

\* ------------------------------------------------------------ CalculateInvalidation
directReasonsFor(graph, oldNode, existed, newNode) ==
    LET equalStringSet(a, b) == normalizeStringSet(a) = normalizeStringSet(b)
        symmetricSetDiff(a, b) ==
            LET aa == normalizeStringSet(a)
                bb == normalizeStringSet(b)
            IN  SortStrings(SelectSeq(aa, LAMBDA v : v \notin Elems(bb))
                            \o SelectSeq(bb, LAMBDA v : v \notin Elems(aa)))
        equalStringMap(a, b) ==
            /\ Cardinality(DOMAIN a) = Cardinality(DOMAIN b)
            /\ \A k \in DOMAIN a : k \in DOMAIN b /\ a[k] = b[k]
        changedMapKeys(a, b) ==
            IF DOMAIN a = {} /\ DOMAIN b = {} THEN <<>>
            ELSE SelectSeq(SortedKeys(DOMAIN a \cup DOMAIN b),
                           LAMBDA k : \/ (k \in DOMAIN a) # (k \in DOMAIN b)
                                      \/ (k \in DOMAIN a /\ k \in DOMAIN b /\ a[k] # b[k]))
        details(values, key) == [i \in DOMAIN values |-> [Key |-> key, Value |-> values[i]]]
        reason(t, details_) == <<InvalidationReason(t, "", details_)>>
        input == IF newNode.InputHash # oldNode.InputHash
                 THEN reason("InputChanged", <<>>)
                 ELSE <<>>
        declaredReasons(diff) ==
            IF Len(input) + Len(diff) = 0
            THEN reason("GraphStructureChanged",
                        <<[Key |-> "DeclaredInputs", Value |-> "changed"]>>)
            ELSE [i \in DOMAIN diff |->
                     InvalidationReason("GraphStructureChanged", "",
                                        <<[Key |-> "InputName", Value |-> diff[i]]>>)]
        declared == IF ~equalStringSet(newNode.DeclaredInputs, oldNode.DeclaredInputs)
                    THEN declaredReasons(symmetricSetDiff(oldNode.DeclaredInputs,
                                                          newNode.DeclaredInputs))
                    ELSE <<>>
        env == IF ~equalStringMap(newNode.Env, oldNode.Env)
               THEN reason("EnvChanged",
                           details(changedMapKeys(oldNode.Env, newNode.Env), "EnvName"))
               ELSE <<>>
        command == IF newNode.Command # oldNode.Command
                   THEN reason("CommandChanged", <<>>)
                   ELSE <<>>
        outputs == IF ~equalStringSet(newNode.Outputs, oldNode.Outputs)
                   THEN reason("OutputChanged",
                               details(symmetricSetDiff(oldNode.Outputs, newNode.Outputs),
                                       "OutputName"))
                   ELSE <<>>
        upstream == IF ~equalStringSet(newNode.Upstream, oldNode.Upstream)
                    THEN reason("GraphStructureChanged",
                                <<[Key |-> "Upstream", Value |-> "changed"]>>)
                    ELSE <<>>
        missingParents == SelectSeq(normalizeStringSet(newNode.Upstream),
                                    LAMBDA parent : parent \notin DOMAIN graph.Nodes)
        missing == [i \in DOMAIN missingParents |->
                       InvalidationReason("GraphStructureChanged", "",
                           <<[Key |-> "UpstreamTaskID", Value |-> missingParents[i]],
                             [Key |-> "Upstream", Value |-> "missing"]>>)]
    IN  CanonicalizeReasons(
            IF ~existed THEN reason("GraphStructureChanged", <<>>)
            ELSE input \o declared \o env \o command \o outputs \o upstream \o missing)

rootSourcesOf_Self(name, entry, direct, depSources) ==
    IF ~entry.Invalidated THEN <<>> ELSE <<name>>

\* rootSources[name]: nothing for a valid node; otherwise the node itself when
\* it has a direct reason, and the root causes it got from its upstreams
rootSourcesOf(name, entry, direct, depSources) ==
    IF ~entry.Invalidated THEN <<>>
    ELSE SortedKeys((IF Len(direct) > 0 THEN {name} ELSE {}) \cup Elems(depSources))

\* the loop over topo: result and rootSources after the nodes of topo, from acc
RECURSIVE invalidateLoop(_, _, _, _)
invalidateLoop(oldNodes, newGraph_, topo, acc) ==
    LET name == Head(topo)
        existed == name \in DOMAIN oldNodes
        oldNode == IF existed THEN oldNodes[name]
                   ELSE NodeSnapshot("", "", <<>>, "", <<>>, "", <<>>, <<>>)
        sourceSet == UNION {Elems(acc.rootSources[parent]) :
                              parent \in {p \in Parents(newGraph_, name) :
                                            /\ p \in DOMAIN acc.result
                                            /\ acc.result[p].Invalidated}}
        dep(depSources) ==
            [i \in DOMAIN depSources |->
                InvalidationReason("DependencyInvalidated", depSources[i], <<>>)]
        store(direct, depSources, entry) ==
            invalidateLoop(oldNodes, newGraph_, Tail(topo),
                [result |-> (name :> entry) @@ acc.result,
                 rootSources |-> (name :> rootSourcesOf(name, entry, direct, depSources))
                                 @@ acc.rootSources])
        entryOf(reasons) == [Invalidated |-> Len(reasons) > 0, Reasons |-> reasons]
        combine(direct, depSources) ==
            store(direct, depSources,
                  entryOf(CanonicalizeReasons(direct \o dep(depSources))))
    IN  IF topo = <<>> THEN acc.result
        ELSE combine(directReasonsFor(newGraph_, oldNode, existed, newGraph_.Nodes[name]),
                     SortedKeys(sourceSet))

CalculateInvalidation(oldGraph_, newGraph_) ==
    IF newGraph_.nil \/ DOMAIN newGraph_.Nodes = {} THEN <<>>
    ELSE invalidateLoop(IF ~oldGraph_.nil THEN oldGraph_.Nodes ELSE <<>>, newGraph_,
                        topoOrder(newGraph_), [result |-> <<>>, rootSources |-> <<>>])

\* ------------------------------------------------------------ BuildIncrementalPlan
\* The cache is [entries |-> the task hashes it holds, broken |-> whether Has
\* returns an error].  A returned plan is [err |-> FALSE, Order, Decisions];
\* a returned error is [err |-> TRUE, Order |-> <<>>, Decisions |-> <<>>].
decide_IgnoreUpstream(graph, invalidation_, cache_, name, decisions) ==
    LET n == graph.Nodes[name]
    IN  IF name \in DOMAIN invalidation_ /\ invalidation_[name].Invalidated
        THEN DecisionExecute
        ELSE IF n.TaskHash = "" THEN DecisionExecute
        ELSE IF cache_.broken THEN "error"
        ELSE IF n.TaskHash \notin cache_.entries THEN DecisionExecute
        ELSE DecisionReuseCache

\* the body of the loop over order: the decision for node `name`, given the
\* decisions made before it, or "error" when cache.Has fails
decide(graph, invalidation_, cache_, name, decisions) ==
    LET n == graph.Nodes[name]
    IN  IF name \in DOMAIN invalidation_ /\ invalidation_[name].Invalidated
        THEN DecisionExecute
        ELSE IF n.TaskHash = "" THEN DecisionExecute
        ELSE IF cache_.broken THEN "error"
        ELSE IF n.TaskHash \notin cache_.entries THEN DecisionExecute
        ELSE IF \A parent \in Parents(graph, name) :
                    parent \in DOMAIN decisions /\ decisions[parent] = DecisionReuseCache
        THEN DecisionReuseCache
        ELSE DecisionExecute

\* the loop over order: the decisions after the nodes of order, from decisions
RECURSIVE decideLoop(_, _, _, _, _)
decideLoop(graph, invalidation_, cache_, order_, decisions) ==
    IF order_ = <<>> THEN [err |-> FALSE, Decisions |-> decisions]
    ELSE LET d == decide(graph, invalidation_, cache_, Head(order_), decisions)
         IN  IF d = "error" THEN [err |-> TRUE, Decisions |-> <<>>]
             ELSE decideLoop(graph, invalidation_, cache_, Tail(order_),
                             (Head(order_) :> d) @@ decisions)

BuildIncrementalPlan(graph, invalidation_, cache_) ==
    LET finish(nodeNames, order_, decided) ==
            IF decided.err THEN [err |-> TRUE, Order |-> <<>>, Decisions |-> <<>>]
            ELSE [err |-> FALSE,
                  Order |-> IF Len(order_) # Len(nodeNames) THEN SortStrings(nodeNames)
                            ELSE order_,
                  Decisions |-> [name \in Elems(nodeNames) |->
                                    IF name \in DOMAIN decided.Decisions
                                    THEN decided.Decisions[name]
                                    ELSE DecisionExecute]]
        walk(nodeNames, order_) ==
            finish(nodeNames, order_, decideLoop(graph, invalidation_, cache_, order_, <<>>))
    IN  IF graph.nil \/ DOMAIN graph.Nodes = {}
        THEN [err |-> FALSE, Order |-> <<>>, Decisions |-> <<>>]
        ELSE walk(SortedKeys(DOMAIN graph.Nodes), topoOrder(graph))

\* ------------------------------------------------------------ planning inputs
\* the nodes of the new snapshot
Names == {<<"a", "b", "c", "d", "e">>[i] : i \in 1..NumNodes}

\* a task of the previous graph that the new graph no longer has
Removed == "z"

\* the upstream of node n in the set E of pairs <<p, n>>: n lists p as upstream
UpstreamIn(E, n) == {p \in Names \cup {Removed} : <<p, n>> \in E}

\* S and every name that a node of S depends on through up, in at most k steps
RECURSIVE UpstreamClosure(_, _, _)
UpstreamClosure(up, S, k) ==
    IF k = 0 THEN S
    ELSE UpstreamClosure(up, S \cup UNION {up[n] : n \in S \cap DOMAIN up}, k - 1)

\* the upstream relations of a new snapshot: at most MaxUpstream entries and,
\* by graph invariant (iv), no directed cycle
Shapes ==
    {E \in SUBSET {pn \in (Names \cup {Removed}) \X Names : pn[1] # pn[2]} :
        /\ Cardinality(E) <= MaxUpstream
        /\ LET up == [n \in Names |-> UpstreamIn(E, n)]
           IN  \A n \in Names : n \notin UpstreamClosure(up, up[n], NumNodes)}

\* a set written down as a caller may write it: descending, one element twice
Unsorted(S) ==
    IF S = {} THEN <<>>
    ELSE LET s == SortedKeys(S)
         IN  [i \in 1..Len(s) |-> s[Len(s) + 1 - i]] \o <<s[Len(s)]>>

\* the new snapshot for a shape and the task hash of every node: "hit" is a
\* hash the cache holds, "miss" one it does not hold, "" an unknown hash
NewGraph(E, hashes) ==
    [nil |-> FALSE,
     Nodes |-> [n \in Names |->
                   NodeSnapshot(n, hashes[n], <<"x">>, "i1", "x" :> "1", "cmd1", <<"x">>,
                                Unsorted(UpstreamIn(E, n)))]]

\* The previous snapshot: the removed task, and every node whose kind is not
\* "new", with the same logical content as in the new snapshot written in
\* another order, except for what its kind says has changed: "input",
\* "declared", "env", "command", "outputs", "upstream", or "all" of them.
OldGraph(E, kinds) ==
    LET is(n, k) == kinds[n] \in {k, "all"}
    IN  [nil |-> FALSE,
         Nodes |-> [n \in {m \in Names : kinds[m] # "new"} \cup {Removed} |->
            IF n = Removed
            THEN NodeSnapshot(n, "hit", <<"x">>, "i1", "x" :> "1", "cmd1", <<"x">>, <<>>)
            ELSE NodeSnapshot(n, "hit",
                     IF is(n, "declared") THEN <<"y", "y">> ELSE <<"x", "x">>,
                     IF is(n, "input") THEN "i0" ELSE "i1",
                     IF is(n, "env") THEN ("x" :> "0") @@ ("y" :> "1") ELSE "x" :> "1",
                     IF is(n, "command") THEN "cmd0" ELSE "cmd1",
                     IF is(n, "outputs") THEN <<"y">> ELSE <<"x", "x">>,
                     IF is(n, "upstream")
                     THEN (IF UpstreamIn(E, n) = {} THEN <<Removed>> ELSE <<>>)
                     ELSE SortedKeys(UpstreamIn(E, n)))]]

\* nothing is being executed while a planning pass is modelled
ExecutorIdle ==
    /\ ctx = "live"
    /\ mode = "serial"
    /\ concurrency = 1
    /\ edges = {}
    /\ plan = [present |-> FALSE, Decisions |-> [t \in Tasks |-> DecisionExecute]]
    /\ runner = [probe |-> [t \in Tasks |-> "?"], out |-> [t \in Tasks |-> "?"],
                 faulty |-> FALSE]
    /\ state = [t \in Tasks |-> TaskPending]
    /\ order = <<>>
    /\ exitCodes = EmptyMap
    /\ pc = "idle"
    /\ cur = NoCur
    /\ depth = 0
    /\ nextToStart = 0
    /\ inFlight = 0
    /\ workCh = <<>>
    /\ busy = {}
    /\ doneCh = <<>>
    /\ closed = FALSE
    /\ retval = NoRetval
    /\ calls = [probe |-> [t \in Tasks |-> 0], run |-> [t \in Tasks |-> 0],
                restore |-> [t \in Tasks |-> 0], locked |-> [t \in Tasks |-> 0]]
    /\ events = <<>>
    /\ skipCause = [t \in Tasks |-> 0]

\* Before PlanIncremental is called.  Its arguments are one of:
\*   - some nodes are new, or have a changed input hash, or have changed in
\*     every way, in any shape; or have changed in one way, in a shape with at
\*     most one upstream entry; every task hash is in the cache;
\*   - some nodes have a changed input hash, and cache.Has fails;
\*   - nothing changed, and every node has a task hash the cache holds, or
\*     one it lacks, or none;
\*   - no previous snapshot; no new snapshot.
PlannerInit ==
    /\ ExecutorIdle
    /\ CliIdle
    /\ \/ \E E \in Shapes, changed \in SUBSET Names,
             kind \in {"new", "input", "declared", "env", "command", "outputs",
                       "upstream", "all"} :
             /\ kind \in {"new", "input", "all"} \/ Cardinality(E) <= 1
             /\ newGraph = NewGraph(E, [n \in Names |-> "hit"])
             /\ oldGraph = OldGraph(E, [n \in Names |-> IF n \in changed THEN kind
                                                              ELSE "same"])
             /\ cache = [entries |-> {"hit"}, broken |-> FALSE]
       \/ \E E \in {F \in Shapes : \A pn \in F : pn[1] # Removed},
             changed \in SUBSET Names :
             /\ newGraph = NewGraph(E, [n \in Names |-> "hit"])
             /\ oldGraph = OldGraph(E, [n \in Names |-> IF n \in changed THEN "input"
                                                              ELSE "same"])
             /\ cache = [entries |-> {"hit"}, broken |-> TRUE]
       \/ \E E \in {F \in Shapes : \A pn \in F : pn[1] # Removed},
             hashes \in [Names -> {"hit", "miss", ""}] :
             /\ newGraph = NewGraph(E, hashes)
             /\ oldGraph = OldGraph(E, [n \in Names |-> "same"])
             /\ cache = [entries |-> {"hit"}, broken |-> FALSE]
       \/ \E E \in Shapes :
             /\ newGraph = NewGraph(E, [n \in Names |-> "hit"])
             /\ oldGraph = [nil |-> TRUE, Nodes |-> <<>>]
             /\ cache = [entries |-> {"hit"}, broken |-> FALSE]
       \/ /\ newGraph = [nil |-> TRUE, Nodes |-> <<>>]
          /\ oldGraph = OldGraph({}, [n \in Names |-> "same"])
          /\ cache = [entries |-> {"hit"}, broken |-> FALSE]
    /\ invalidation = <<>>
    /\ incPlan = <<>>
    /\ serialized = <<>>
    /\ recreated = <<>>
    /\ reserialized = <<>>
    /\ ipc = "start"

\* ------------------------------------------------------------ planning pass
\* PlanIncremental: CalculateInvalidation, then BuildIncrementalPlan on its map
PlanIncremental ==
    /\ ipc = "start"
    /\ invalidation' = CalculateInvalidation(oldGraph, newGraph)
    /\ incPlan' = BuildIncrementalPlan(newGraph, invalidation', cache)
    /\ ipc' = "planned"
    /\ UNCHANGED <<oldGraph, newGraph, cache, serialized, recreated, reserialized>>
    /\ UNCHANGED <<executorVars, cliVars>>

\* InvalidationMap.MarshalBinary on the map of the planning result
MarshalInvalidation ==
    /\ ipc = "planned"
    /\ serialized' = MapMarshalBinary(invalidation)
    /\ ipc' = "serialized"
    /\ UNCHANGED <<oldGraph, newGraph, cache, invalidation, incPlan, recreated, reserialized>>
    /\ UNCHANGED <<executorVars, cliVars>>

\* InvalidationMap.MarshalBinary on a map with the same entries and the same
\* reasons created in another order: each reason once more, last first, with
\* its details last first (map entries have no order in the model: the keys
\* are collected and sorted)
MarshalRecreated ==
    /\ ipc = "serialized"
    /\ recreated' =
          [n \in DOMAIN invalidation |->
              [invalidation[n] EXCEPT !.Reasons =
                  @ \o [i \in 1..Len(@) |->
                           LET r == @[Len(@) + 1 - i]
                           IN  [Type |-> r.Type, SourceTaskID |-> r.SourceTaskID,
                                Details |-> [j \in 1..Len(r.Details) |->
                                                r.Details[Len(r.Details) + 1 - j]]]]]]
    /\ reserialized' = MapMarshalBinary(recreated')
    /\ ipc' = "reserialized"
    /\ UNCHANGED <<oldGraph, newGraph, cache, invalidation, incPlan, serialized>>
    /\ UNCHANGED <<executorVars, cliVars>>

PlannerNext ==
    \/ PlanIncremental
    \/ MarshalInvalidation
    \/ MarshalRecreated

PlannerSpec == PlannerInit /\ [][PlannerNext]_vars

\* ============================================================ planner properties
\* the direct upstream of a node of the new snapshot, as the snapshot lists it
ListedUpstream(n) == Elems(newGraph.Nodes[n].Upstream)

\* every node or missing name that n depends on, directly or not
ListedAncestors(n) ==
    LET up == [m \in DOMAIN newGraph.Nodes |-> ListedUpstream(m)]
    IN  UpstreamClosure(up, up[n], NumNodes)

\* C17: in the plan PlanIncremental returns, a node is ReuseCache exactly when
\* it is not invalidated, its task hash is known, the cache reports the hash
\* present and every direct upstream was assigned ReuseCache; every other node
\* is Execute, and so is every node downstream of an Execute node.
C17_ReuseIffValidCachedAndUpstreamReused ==
    (ipc \notin {"idle", "start"} /\ ~incPlan.err) =>
        /\ DOMAIN incPlan.Decisions = DOMAIN newGraph.Nodes
        /\ \A n \in DOMAIN newGraph.Nodes :
              /\ incPlan.Decisions[n] \in {DecisionExecute, DecisionReuseCache}
              /\ incPlan.Decisions[n] = DecisionReuseCache <=>
                    /\ ~invalidation[n].Invalidated
                    /\ newGraph.Nodes[n].TaskHash # ""
                    /\ ~cache.broken
                    /\ newGraph.Nodes[n].TaskHash \in cache.entries
                    /\ \A p \in ListedUpstream(n) :
                          /\ p \in DOMAIN incPlan.Decisions
                          /\ incPlan.Decisions[p] = DecisionReuseCache
              /\ \A u \in ListedAncestors(n) \cap DOMAIN newGraph.Nodes :
                    incPlan.Decisions[u] = DecisionExecute =>
                        incPlan.Decisions[n] = DecisionExecute

\* a plan in which a node is executed only because its upstream, whose hash the
\* cache lacks, is executed, next to a node that is reused
C17_Witness ==
    /\ ipc \notin {"idle", "start"}
    /\ ~incPlan.err
    /\ \E x, d, r \in DOMAIN newGraph.Nodes :
          /\ ~invalidation[x].Invalidated
          /\ newGraph.Nodes[x].TaskHash = "miss"
          /\ incPlan.Decisions[x] = DecisionExecute
          /\ x \in ListedUpstream(d)
          /\ ~invalidation[d].Invalidated
          /\ newGraph.Nodes[d].TaskHash = "hit"
          /\ incPlan.Decisions[d] = DecisionExecute
          /\ incPlan.Decisions[r] = DecisionReuseCache

\* node n of the new snapshot differs from its previous snapshot: it is new,
\* or its input hash, declared inputs, env, command, outputs or upstream set
\* differ, or it lists an upstream that the new snapshot does not have
DirectChange(n) ==
    \/ oldGraph.nil
    \/ n \notin DOMAIN oldGraph.Nodes
    \/ LET new == newGraph.Nodes[n]
           old == oldGraph.Nodes[n]
       IN  \/ new.InputHash # old.InputHash
           \/ Elems(new.DeclaredInputs) # Elems(old.DeclaredInputs)
           \/ new.Env # old.Env
           \/ new.Command # old.Command
           \/ Elems(new.Outputs) # Elems(old.Outputs)
           \/ Elems(new.Upstream) # Elems(old.Upstream)
           \/ \E p \in Elems(new.Upstream) : p \notin DOMAIN newGraph.Nodes

\* C18: the map CalculateInvalidation returns has exactly the nodes of the new
\* snapshot as keys and, for an acyclic snapshot, marks a node invalidated
\* exactly when it or one of its transitive upstream nodes has a direct change.
C18_InvalidatedIffChangeAtOrAbove ==
    ipc \notin {"idle", "start"} =>
        /\ DOMAIN invalidation = DOMAIN newGraph.Nodes
        /\ (\A n \in DOMAIN newGraph.Nodes : n \notin ListedAncestors(n)) =>
              \A n \in DOMAIN newGraph.Nodes :
                  invalidation[n].Invalidated <=>
                      \E m \in {n} \cup (ListedAncestors(n) \cap DOMAIN newGraph.Nodes) :
                          DirectChange(m)

\* a node without a direct change, below an upstream without a direct change,
\* invalidated by a change two steps above it, while the previous snapshot
\* held a node the new one has not
C18_Witness ==
    /\ ipc \notin {"idle", "start"}
    /\ Removed \in DOMAIN oldGraph.Nodes
    /\ \E a, b, c \in DOMAIN newGraph.Nodes :
          /\ DirectChange(a)
          /\ a \in ListedUpstream(b) /\ ~DirectChange(b)
          /\ b \in ListedUpstream(c) /\ ~DirectChange(c)
          /\ ListedUpstream(c) = {b}
          /\ invalidation[c].Invalidated

\* the source task ids of the DependencyInvalidated reasons of node n, in the
\* order in which the entry holds them
DependencySources(n) ==
    LET deps == SelectSeq(invalidation[n].Reasons,
                          LAMBDA r : r.Type = "DependencyInvalidated")
    IN  [i \in DOMAIN deps |-> deps[i].SourceTaskID]

\* node m has at least one direct (non-dependency) reason
HasDirectReason(m) ==
    \E i \in DOMAIN invalidation[m].Reasons :
        invalidation[m].Reasons[i].Type # "DependencyInvalidated"

\* the root causes that reach node n: the nodes with a direct reason from
\* which n is reached through invalidated direct upstreams only
RootCauses(n) ==
    LET up == [m \in DOMAIN newGraph.Nodes |->
                  {q \in ListedUpstream(m) \cap DOMAIN newGraph.Nodes :
                      invalidation[q].Invalidated}]
    IN  {m \in UpstreamClosure(up, up[n], NumNodes) : HasDirectReason(m)}

\* C19: every DependencyInvalidated reason of a node names a transitive
\* upstream node that has a direct reason of its own, and the node holds one
\* such reason, and only one, for each root cause that reaches it through its
\* invalidated direct upstreams, in ascending order of the source name.
C19_DependencyReasonsNameRootCauses ==
    ipc \notin {"idle", "start"} =>
        \A n \in DOMAIN newGraph.Nodes :
            LET src == DependencySources(n)
            IN  /\ \A i \in DOMAIN src :
                      /\ src[i] \in ListedAncestors(n) \cap DOMAIN newGraph.Nodes
                      /\ HasDirectReason(src[i])
                /\ Elems(src) = RootCauses(n)
                /\ \A i, j \in DOMAIN src : i < j => StrLess(src[i], src[j])

\* a node whose only dependency reason names the changed node two steps above
\* it, and not its direct upstream, which is invalidated only through that node
C19_Witness ==
    /\ ipc \notin {"idle", "start"}
    /\ \E a, b, c \in DOMAIN newGraph.Nodes :
          /\ HasDirectReason(a)
          /\ ListedUpstream(b) = {a}
          /\ invalidation[b].Invalidated /\ ~HasDirectReason(b)
          /\ ListedUpstream(c) = {b}
          /\ ~HasDirectReason(c)
          /\ DependencySources(c) = <<a>>

\* A reason list in canonical form: the details of every reason ascending by
\* (key, value) without repetition, and the reasons ascending without
\* repetition by type precedence, then source task, then details (at the
\* first place where two detail lists differ the smaller (key, value) comes
\* first, and a proper prefix comes first).
CanonicalForm(rs) ==
    LET TypePrecedence ==
            <<"InputChanged", "EnvChanged", "DependencyInvalidated",
              "GraphStructureChanged", "CommandChanged", "OutputChanged">>
        Precedence(t) == CHOOSE i \in DOMAIN TypePrecedence : TypePrecedence[i] = t
        DetailBefore(x, y) ==
            \/ StrLess(x.Key, y.Key)
            \/ x.Key = y.Key /\ StrLess(x.Value, y.Value)
        DetailsBefore(a, b) ==
            \/ \E i \in DOMAIN a \cap DOMAIN b :
                  /\ \A j \in 1..(i - 1) : a[j] = b[j]
                  /\ DetailBefore(a[i], b[i])
            \/ Len(a) < Len(b) /\ \A j \in DOMAIN a : a[j] = b[j]
        ReasonBefore(a, b) ==
            \/ Precedence(a.Type) < Precedence(b.Type)
            \/ /\ a.Type = b.Type
               /\ \/ StrLess(a.SourceTaskID, b.SourceTaskID)
                  \/ a.SourceTaskID = b.SourceTaskID /\ DetailsBefore(a.Details, b.Details)
    IN  /\ \A i \in DOMAIN rs :
              \A j, k \in DOMAIN rs[i].Details :
                  j < k => DetailBefore(rs[i].Details[j], rs[i].Details[k])
        /\ \A i, j \in DOMAIN rs : i < j => ReasonBefore(rs[i], rs[j])

\* C20: every entry of the map CalculateInvalidation returns holds its reasons
\* in canonical form, and a map with the same entries and reasons created in
\* another order serializes to the same bytes.
C20_CanonicalReasonsDeterministicBytes ==
    /\ ipc \notin {"idle", "start"} =>
          \A n \in DOMAIN newGraph.Nodes : CanonicalForm(invalidation[n].Reasons)
    /\ ipc = "reserialized" =>
          /\ serialized # <<-1>>
          /\ reserialized = serialized

\* a map with an entry of at least three reasons, one of them with two
\* details and one a dependency reason, created again with the reasons and
\* details in another order and serialized both times
C20_Witness ==
    /\ ipc = "reserialized"
    /\ Len(serialized) > 1
    /\ \E n \in DOMAIN newGraph.Nodes :
          /\ Len(invalidation[n].Reasons) >= 3
          /\ \E i \in DOMAIN invalidation[n].Reasons :
                Len(invalidation[n].Reasons[i].Details) >= 2
          /\ \E i \in DOMAIN invalidation[n].Reasons :
                invalidation[n].Reasons[i].Type = "DependencyInvalidated"
          /\ recreated[n].Reasons # invalidation[n].Reasons

\* ============================================================ CLI: run and resume
\* Model of one invocation of the CLI (package cli): executeRun and
\* executeResume map the command line to an execInvocation, executeGraph
\* validates it against the recovery store, builds the resume plan, records
\* the run and runs the graph through RunSerial with a cache-aware runner.
\*
\* The run a resume may name has the id "r0", the run being made "r1".  The
\* current graph has the hash "g1"; "g2" is the hash of another graph.

\* semantic exit codes
ExitCodes == [Success |-> 0, ValidationError |-> 1, WorkspaceError |-> 2, ExecutionError |-> 3]

\* g.TopologicalOrder(): upstream first, ties broken by name
RECURSIVE TopologicalOrder(_, _)
TopologicalOrder(E, placed) ==
    LET ready == {t \in Tasks \ placed : Upstream(E, t) \subseteq placed}
    IN IF ready = {} THEN <<>>
       ELSE LET t == MinOf(ready) IN <<t>> \o TopologicalOrder(E, placed \cup {t})

\* state.Run
RunRecord(id, hash, runMode, retry, status, previous) ==
    [RunID |-> id, GraphHash |-> hash, Mode |-> runMode, RetryCount |-> retry,
     Status |-> status, PreviousRunID |-> previous]

\* The resume validation of executeGraph: the previous run must be named,
\* be found in the store and have the hash of the current graph.  prev is
\* what st.LoadRun finds (<<>> when it fails).
\* variant: the graph hash of the previous run is not compared
resumeValidation_NoHashCheck(in, prev, graphHash) ==
    IF ~in.IsResume THEN [err |-> "", previousRunID |-> "", retryCount |-> 0]
    ELSE IF in.PreviousRunID = ""
    THEN [err |-> "--previous-run-id is required", previousRunID |-> "", retryCount |-> 0]
    ELSE IF prev = <<>>
    THEN [err |-> "previous run not found", previousRunID |-> "", retryCount |-> 0]
    ELSE [err |-> "", previousRunID |-> in.PreviousRunID, retryCount |-> prev.RetryCount + 1]

\* variant: a previous run recorded without a graph hash passes the comparison
resumeValidation_EmptyHashMatches(in, prev, graphHash) ==
    IF ~in.IsResume THEN [err |-> "", previousRunID |-> "", retryCount |-> 0]
    ELSE IF in.PreviousRunID = ""
    THEN [err |-> "--previous-run-id is required", previousRunID |-> "", retryCount |-> 0]
    ELSE IF prev = <<>>
    THEN [err |-> "previous run not found", previousRunID |-> "", retryCount |-> 0]
    ELSE IF prev.GraphHash # "" /\ prev.GraphHash # graphHash
    THEN [err |-> "graph hash mismatch for previous run", previousRunID |-> "",
          retryCount |-> 0]
    ELSE [err |-> "", previousRunID |-> in.PreviousRunID, retryCount |-> prev.RetryCount + 1]

\* variant: the retry count of the previous run is taken over unchanged
resumeValidation_SameRetryCount(in, prev, graphHash) ==
    IF ~in.IsResume THEN [err |-> "", previousRunID |-> "", retryCount |-> 0]
    ELSE IF in.PreviousRunID = ""
    THEN [err |-> "--previous-run-id is required", previousRunID |-> "", retryCount |-> 0]
    ELSE IF prev = <<>>
    THEN [err |-> "previous run not found", previousRunID |-> "", retryCount |-> 0]
    ELSE IF prev.GraphHash # graphHash
    THEN [err |-> "graph hash mismatch for previous run", previousRunID |-> "",
          retryCount |-> 0]
    ELSE [err |-> "", previousRunID |-> in.PreviousRunID, retryCount |-> prev.RetryCount]

resumeValidation(in, prev, graphHash) ==
    IF ~in.IsResume THEN [err |-> "", previousRunID |-> "", retryCount |-> 0]
    ELSE IF in.PreviousRunID = ""
    THEN [err |-> "--previous-run-id is required", previousRunID |-> "", retryCount |-> 0]
    ELSE IF prev = <<>>
    THEN [err |-> "previous run not found", previousRunID |-> "", retryCount |-> 0]
    ELSE IF prev.GraphHash # graphHash
    THEN [err |-> "graph hash mismatch for previous run", previousRunID |-> "",
          retryCount |-> 0]
    ELSE [err |-> "", previousRunID |-> in.PreviousRunID, retryCount |-> prev.RetryCount + 1]

\* buildResumePlan.  left[t] is what the previous run left of task t: its
\* checkpoint compared with the current task hash ("none", "invalid", "empty"
\* cache keys, "stale" first cache key, or "match"), whether the cache has
\* the entry of the current hash, and whether restoring it succeeds.
\* Yields the error or the plan (nil: not present), and the tasks restored.
buildResumePlan(E, left, cacheFails) ==
    LET topo == TopologicalOrder(E, {})
        failed(acc, e) == [acc EXCEPT !.err = e]
        decided(acc, name, d, r) == [acc EXCEPT !.Decisions[name] = d, !.restored = r]
        planned(acc, ups) == {p \in ups : acc.Decisions[p] = DecisionReuseCache}
        visit(acc, name, cp, ups, r) ==
            IF \E p \in r \ acc.restored : ~left[p].restorable
            THEN failed(acc, "restoring for resume plan failed")
            ELSE IF cp.checkpoint \in {"none", "invalid"}
            THEN decided(acc, name, DecisionExecute, r)
            ELSE IF cp.checkpoint \in {"empty", "stale"}
            THEN decided(acc, name, DecisionExecute, r)
            ELSE IF cacheFails
            THEN failed([acc EXCEPT !.restored = r], "cache error")
            ELSE IF ~cp.has
            THEN failed([acc EXCEPT !.restored = r],
                        "cache entry missing for checkpointed task")
            ELSE IF ups # planned(acc, ups)
            THEN decided(acc, name, DecisionExecute, r)
            ELSE IF name \notin r /\ ~cp.restorable
            THEN failed([acc EXCEPT !.Decisions[name] = DecisionReuseCache, !.restored = r],
                        "restoring for resume plan failed")
            ELSE decided(acc, name, DecisionReuseCache, r \cup {name})
        RECURSIVE walk(_, _)
        walk(acc, i) ==
            IF i > Len(topo) \/ acc.err # "" THEN acc
            ELSE walk(visit(acc, topo[i], left[topo[i]], Upstream(E, topo[i]),
                            acc.restored \cup planned(acc, Upstream(E, topo[i]))),
                      i + 1)
        finish(acc) ==
            [err |-> acc.err,
             plan |-> IF acc.err = "" /\ acc.Decisions[topo[1]] = DecisionReuseCache
                      THEN [present |-> TRUE, Decisions |-> acc.Decisions]
                      ELSE [present |-> FALSE, Decisions |-> [t \in Tasks |-> DecisionExecute]],
             Decisions |-> acc.Decisions,
             restored |-> acc.restored]
    IN finish(walk([err |-> "", Decisions |-> [t \in Tasks |-> ""], restored |-> {}], 1))

\* variant: the last Failed task in name order
firstFailedNode_Last(finalState) ==
    LET failedNames == {t \in Tasks : finalState[t] = TaskFailed}
    IN IF failedNames = {} THEN 0
       ELSE CHOOSE t \in failedNames : \A u \in failedNames : u <= t

\* firstFailedNode: the first Failed task in name order (0: none)
firstFailedNode(finalState) ==
    LET failedNames == {t \in Tasks : finalState[t] = TaskFailed}
    IN IF failedNames = {} THEN 0 ELSE MinOf(failedNames)

translateGraphResultToExitCode(finalState) ==
    IF \E t \in Tasks : finalState[t] = TaskFailed
    THEN ExitCodes.ExecutionError ELSE ExitCodes.Success

\* The answers of the cache-aware runner over the cache of the mode: Probe
\* hits when the cache has the entry; Restore replays it; Run ends as the
\* script of the task ends.  A clean run has no cache.
CacheAwareRunner(in, ws, resumePlan) ==
    [probe |-> [t \in Tasks |->
                  IF in.Mode = "incremental" /\ ws.left[t].has /\ ws.left[t].restorable
                  THEN "hit" ELSE "miss"],
     out |-> [t \in Tasks |->
                IF resumePlan.present /\ resumePlan.Decisions[t] = DecisionReuseCache
                THEN (IF ws.left[t].restorable THEN "exit0" ELSE "err")
                ELSE (IF t \in ws.failing THEN "exit1" ELSE "exit0")],
     faulty |-> FALSE]

\* checkpointObserver.OnTaskTerminal for a task with a result: a checkpoint
\* is created and saved when the exit code is 0 and the validator finds the
\* cache entry of the task
\* variant: the exit code is not looked at
OnTaskTerminal_AnyExitCode(code, entryExists) == entryExists

OnTaskTerminal(code, entryExists) == code = 0 /\ entryExists

\* The tasks for which the run being made has written a checkpoint; the
\* observer is attached in incremental mode only.  The cache has the entry
\* of a task when it had it before the run, or when the task ran with exit
\* code 0 in this run and the entry was put.
Checkpoints ==
    LET cacheHolds(t) ==
            \/ workspace.left[t].has
            \/ calls.run[t] > 0 /\ exitCodes[t] = 0 /\ workspace.left[t].put
    IN IF cli.pc \in {"running", "returned"} /\ inv.Mode = "incremental"
       THEN {t \in DOMAIN exitCodes : OnTaskTerminal(exitCodes[t], cacheHolds(t))}
       ELSE {}

\* ------------------------------------------------------------ invocations
MaxResumeEdges == 2   \* edges of the graph of a CLI invocation
MaxRetry == 1         \* retry count of the run a resume names

\* what a run may have left of a task: a task that never completed left
\* nothing; restoring needs the entry
Leftovers ==
    {l \in [completed : BOOLEAN, checkpoint : {"none", "invalid", "empty", "stale", "match"},
            has : BOOLEAN, restorable : BOOLEAN, put : BOOLEAN] :
        /\ ~l.completed => (l.checkpoint = "none" /\ ~l.has)
        /\ l.restorable => l.has
        /\ ~l.put => ~l.completed}

\* what the previous run left of a task in the ordinary case: nothing of a
\* task it did not complete; of a task it completed, an incremental run
\* left a checkpoint and a cache entry, a clean run neither
Plain(completed, runMode) ==
    [completed |-> completed,
     checkpoint |-> IF completed /\ runMode = "incremental" THEN "match" ELSE "none",
     has |-> completed /\ runMode = "incremental",
     restorable |-> completed /\ runMode = "incremental",
     put |-> TRUE]

\* executeRun and executeResume: the execInvocation of a command line;
\* variant: a resume without retry-failed-only runs in incremental mode
Invocations_DefaultIncremental ==
    {[IsResume |-> FALSE, RetryFailedOnly |-> FALSE, Mode |-> m, PreviousRunID |-> ""] :
        m \in {"clean", "incremental"}} \cup
    {[IsResume |-> TRUE, RetryFailedOnly |-> b, Mode |-> "incremental",
      PreviousRunID |-> id] :
        b \in BOOLEAN, id \in {"", "r0", "r9"}}

Invocations ==
    {[IsResume |-> FALSE, RetryFailedOnly |-> FALSE, Mode |-> m, PreviousRunID |-> ""] :
        m \in {"clean", "incremental"}} \cup
    {[IsResume |-> TRUE, RetryFailedOnly |-> b,
      Mode |-> IF b THEN "incremental" ELSE "clean", PreviousRunID |-> id] :
        b \in BOOLEAN, id \in {"", "r0", "r9"}}

\* The store before an invocation, given the tasks the run "r0" completed:
\* "r0" ran the graph of hash h (or "none": there is no run "r0") in mode
\* runMode as the retry-th retry, and ended with a failure of the class, or
\* without failure (class "").
PriorStore(E, completed, h, runMode, retry, class) ==
    [prev |-> IF h = "none" THEN <<>>
              ELSE RunRecord("r0", h, runMode, retry, "running",
                             IF retry = 0 THEN "" ELSE "older"),
     prevFailure |->
        IF h = "none" THEN [class |-> "", node |-> 0]
        ELSE [class |-> class,
              node |-> IF class # "ExecutionFailure" THEN 0
                       ELSE MinOf({t \in Tasks \ completed :
                                      Upstream(E, t) \subseteq completed})],
     run |-> <<>>,
     failure |-> [class |-> "", node |-> 0]]

\* Before an invocation.  The graph has at most MaxResumeEdges dependencies,
\* among them 2 -> 1, which puts task 2 first in topological order.  The
\* previous run "r0", if there is one, completed an upstream-closed set of tasks.  At most one of these is out of the
\* ordinary: up to two scripts fail; or "r0" ran another graph, or was a
\* retry, or ended with a system failure; or a step of the invocation fails;
\* "r0" ended with an execution failure when it did not complete every task
\* and may have ended with a system failure when it did;
\* or one task is left in another way than fresh or done and its script may
\* fail, "r0" was incremental and is resumed with retry-failed-only.
ResumeInit ==
    /\ ExecutorIdle
    /\ PlannerIdle
    /\ cli = [pc |-> "start", ExitCode |-> ExitCodes.ExecutionError, err |-> "",
              GraphResult |-> FALSE, restored |-> {}, again |-> FALSE]
    /\ gdoc = <<>>
    /\ hooks = <<>>
    /\ \E E \in {G \in SUBSET ({<<1, 2>>, <<2, 1>>, <<2, 3>>, <<1, 3>>} \cup
                                 {<<t, t + 1>> : t \in 3..(NumTasks - 1)}) :
                    Cardinality(G) <= MaxResumeEdges /\ Acyclic(G)},
          m \in {"clean", "incremental"} :
       \E done \in {S \in SUBSET Tasks : \A t \in S : Upstream(E, t) \subseteq S} :
          \/ \E h \in IF done = {} THEN {"none", "g1"} ELSE {"g1"} :
                /\ workspace \in
                      [edges : {E},
                       left : {[t \in Tasks |-> Plain(t \in done, m)]},
                       failing : {S \in SUBSET Tasks : Cardinality(S) <= 2},
                       fault : {""}]
                /\ recovery = PriorStore(E, done, h, m, 0,
                                         IF done = Tasks THEN "" ELSE "ExecutionFailure")
                /\ inv \in Invocations
          \/ /\ done # {}
             /\ workspace = [edges |-> E,
                             left |-> [t \in Tasks |-> Plain(t \in done, m)],
                             failing |-> {}, fault |-> ""]
             /\ recovery \in
                   {PriorStore(E, done, h, m, r, c) :
                       h \in {"g1", "g2"}, r \in 0..MaxRetry,
                       c \in IF done = Tasks THEN {"", "SystemFailure"}
                             ELSE {"ExecutionFailure", "SystemFailure"}}
             /\ inv \in {i \in Invocations : i.IsResume}
          \/ /\ workspace \in
                   [edges : {E},
                    left : {[t \in Tasks |-> Plain(t \in done, m)]},
                    failing : {{}},
                    fault : {"workspace", "graph", "outputdir", "cachedir", "cache",
                             "checkpoints"}]
             /\ recovery = PriorStore(E, done, IF done = {} THEN "none" ELSE "g1", m, 0,
                                      IF done = Tasks THEN "SystemFailure"
                                      ELSE "ExecutionFailure")
             /\ inv \in Invocations
             /\ workspace.fault = "outputdir" => ~inv.IsResume
             /\ workspace.fault = "cachedir" => inv.Mode = "incremental"
             /\ workspace.fault \in {"cache", "checkpoints"} =>
                   (inv.RetryFailedOnly /\ inv.PreviousRunID = "r0")
          \/ /\ m = "incremental"
             /\ \E odd \in Tasks, l \in Leftovers \ {Plain(FALSE, m), Plain(TRUE, m)} :
                   /\ workspace \in
                         [edges : {E},
                          left : {[t \in Tasks |->
                                     IF t = odd THEN l ELSE Plain(t \in done, m)]},
                          failing : {{}, {odd}},
                          fault : {""}]
                   /\ (odd \in done) = l.completed
             /\ recovery = PriorStore(E, done, "g1", m, 0,
                                      IF done = Tasks THEN "SystemFailure"
                                      ELSE "ExecutionFailure")
             /\ inv = [IsResume |-> TRUE, RetryFailedOnly |-> TRUE, Mode |-> "incremental",
                       PreviousRunID |-> "r0"]

\* ------------------------------------------------------------ executeGraph
\* executeGraph up to the call of the executor: the workspace and the graph
\* are checked, a resume is validated against the store, the resume plan is
\* built, and the run is recorded; or the invocation is rejected.
executeGraph ==
    /\ cli.pc = "start"
    /\ UNCHANGED <<inv, workspace, gdoc, hooks, plannerVars>>
    /\ LET v == resumeValidation(inv, IF inv.PreviousRunID = "r0" THEN recovery.prev
                                      ELSE <<>>, "g1")
           retryOnly == inv.IsResume /\ inv.RetryFailedOnly
           \* the record of a run that fails before its graph is loaded
           failedStart == RunRecord("r1", "", inv.Mode, 0, "failed", "")
           reject(code, e, rec, fail, restored) ==
               /\ cli' = [cli EXCEPT !.pc = "returned", !.ExitCode = code, !.err = e,
                                     !.restored = restored]
               /\ recovery' = [recovery EXCEPT !.run = rec, !.failure = fail]
               /\ UNCHANGED executorVars
           run(resumePlan, restored) ==
               /\ cli' = [cli EXCEPT !.pc = "running", !.restored = restored]
               /\ recovery' = [recovery EXCEPT
                                 !.run = RunRecord("r1", "g1", inv.Mode, v.retryCount,
                                                   "running", v.previousRunID)]
               /\ edges' = workspace.edges
               /\ plan' = resumePlan
               /\ runner' = CacheAwareRunner(inv, workspace, resumePlan)
               /\ pc' = "poll"
               /\ UNCHANGED <<ctx, mode, concurrency, state, order, exitCodes, cur, parVars,
                              retval, calls, events, skipCause>>
           resume(built) ==
               IF built.err # ""
               THEN reject(ExitCodes.WorkspaceError, built.err, <<>>, [class |-> "", node |-> 0], built.restored)
               ELSE run(built.plan, built.restored)
       IN IF workspace.fault = "workspace"
          THEN reject(ExitCodes.WorkspaceError, "workspace invalid", failedStart,
                      [class |-> "WorkspaceFailure", node |-> 0], {})
          ELSE IF workspace.fault = "graph"
          THEN reject(ExitCodes.ValidationError, "graph load error", failedStart,
                      [class |-> "GraphFailure", node |-> 0], {})
          ELSE IF v.err # ""
          THEN reject(ExitCodes.ValidationError, v.err, <<>>, [class |-> "", node |-> 0], {})
          ELSE IF workspace.fault \in {"outputdir", "cachedir"}
          THEN reject(ExitCodes.WorkspaceError, workspace.fault, <<>>,
                      [class |-> "WorkspaceFailure", node |-> 0], {})
          ELSE IF ~retryOnly
          THEN run([present |-> FALSE, Decisions |-> [t \in Tasks |-> DecisionExecute]], {})
          ELSE IF recovery.prevFailure.class = ""
          THEN reject(ExitCodes.ValidationError, "previous run has no recorded failure",
                      <<>>, [class |-> "", node |-> 0], {})
          ELSE IF workspace.fault = "checkpoints"
          THEN reject(ExitCodes.WorkspaceError, "loading checkpoints", <<>>, [class |-> "", node |-> 0], {})
          ELSE IF \A t \in Tasks : workspace.left[t].checkpoint = "none"
          THEN reject(ExitCodes.ValidationError, "previous run has no checkpoints",
                      <<>>, [class |-> "", node |-> 0], {})
          ELSE resume(buildResumePlan(workspace.edges, workspace.left,
                                      workspace.fault = "cache"))

\* executeGraph after the executor returned: the exit code is derived from
\* the graph result and the failure of the run is recorded
executeGraphReturn ==
    /\ cli.pc = "running"
    /\ pc = "done"
    /\ UNCHANGED <<inv, workspace, gdoc, hooks, plannerVars, executorVars>>
    /\ IF retval.kind = "error"
       THEN /\ cli' = [cli EXCEPT !.pc = "returned", !.ExitCode = ExitCodes.ExecutionError,
                                  !.err = retval.err]
            /\ recovery' = [recovery EXCEPT
                              !.failure = [class |-> "SystemFailure", node |-> 0]]
       ELSE /\ cli' = [cli EXCEPT !.pc = "returned", !.GraphResult = TRUE,
                                  !.ExitCode = translateGraphResultToExitCode(state)]
            /\ recovery' =
                 IF translateGraphResultToExitCode(state) = ExitCodes.ExecutionError
                 THEN [recovery EXCEPT !.failure = [class |-> "ExecutionFailure",
                                                    node |-> firstFailedNode(state)]]
                 ELSE recovery

\* a later invocation in the same workspace, after one that failed before
\* any task started: the run just made is the one a resume may name (it
\* completed no task and has no checkpoint), and the workspace and the graph
\* file have been repaired
NextInvocation ==
    /\ cli.pc = "returned"
    /\ ~cli.again
    /\ recovery.failure.class \in {"GraphFailure", "WorkspaceFailure"}
    /\ cli' = [pc |-> "start", ExitCode |-> ExitCodes.ExecutionError, err |-> "",
               GraphResult |-> FALSE, restored |-> {}, again |-> TRUE]
    /\ inv' \in {i \in Invocations : i.IsResume /\ i.PreviousRunID = "r0"}
    /\ recovery' = [prev |-> IF recovery.run = <<>> THEN <<>>
                             ELSE [recovery.run EXCEPT !.RunID = "r0"],
                    prevFailure |-> recovery.failure,
                    run |-> <<>>,
                    failure |-> [class |-> "", node |-> 0]]
    /\ workspace' = [workspace EXCEPT
                        !.fault = "",
                        !.left = [t \in Tasks |-> [@[t] EXCEPT !.completed = FALSE,
                                                               !.checkpoint = "none"]]]
    /\ UNCHANGED <<gdoc, hooks, plannerVars, executorVars>>

ResumeNext ==
    \/ executeGraph
    \/ SerialPoll
    \/ SerialExec
    \/ SerialFinish
    \/ executeGraphReturn
    \/ NextInvocation

ResumeSpec == ResumeInit /\ [][ResumeNext]_vars

\* ============================================================ CLI properties
\* C21: a resume that names a run whose graph hash differs from the hash of
\* the current graph is rejected with the validation exit code and the hash
\* mismatch error, and when it is rejected no task has been probed, run or
\* restored, and no run has been recorded.
C21_HashMismatchRejectedBeforeAnyTask ==
    (/\ cli.pc \in {"running", "returned"}
     /\ inv.IsResume
     /\ inv.PreviousRunID = "r0"
     /\ recovery.prev # <<>>
     /\ recovery.prev.GraphHash # "g1"
     /\ workspace.fault \notin {"workspace", "graph"})
        => /\ cli.pc = "returned"
           /\ cli.ExitCode = ExitCodes.ValidationError
           /\ cli.err = "graph hash mismatch for previous run"
           /\ ~cli.GraphResult
           /\ cli.restored = {}
           /\ \A t \in Tasks : TotalCalls(t) = 0
           /\ \A t \in Tasks : state[t] = TaskPending
           /\ recovery.run = <<>>

\* a resume with retry-failed-only of a run of another graph that left a
\* reusable task has been rejected
C21_Witness ==
    /\ cli.pc = "returned"
    /\ inv.IsResume
    /\ inv.RetryFailedOnly
    /\ inv.PreviousRunID = "r0"
    /\ recovery.prev # <<>>
    /\ recovery.prev.GraphHash = "g2"
    /\ recovery.prevFailure.class = "ExecutionFailure"
    /\ \E t \in Tasks : workspace.left[t].checkpoint = "match" /\ workspace.left[t].has
    /\ cli.err = "graph hash mismatch for previous run"

\* the invocation is a resume that passed the resume validation
ResumeAccepted ==
    /\ cli.pc \in {"running", "returned"}
    /\ inv.IsResume
    /\ workspace.fault \notin {"workspace", "graph"}
    /\ resumeValidation(inv, IF inv.PreviousRunID = "r0" THEN recovery.prev ELSE <<>>,
                        "g1").err = ""

\* executeGraph has called buildResumePlan, and the cache answered
ResumePlanned ==
    /\ ResumeAccepted
    /\ inv.RetryFailedOnly
    /\ workspace.fault = ""
    /\ recovery.prevFailure.class # ""
    /\ \E t \in Tasks : workspace.left[t].checkpoint # "none"

\* C22: whenever the resume planner is called, the run goes on with a plan
\* in which a task is ReuseCache exactly when its checkpoint is valid, the
\* first cache key of the checkpoint is the current task hash and the cache
\* has the entry, and every other task is Execute.
C22_ReuseIffCheckpointAndCacheEntry ==
    ResumePlanned =>
        /\ cli.err = ""
        /\ plan.present
        /\ \A t \in Tasks :
              plan.Decisions[t] =
                 IF workspace.left[t].checkpoint = "match" /\ workspace.left[t].has
                 THEN DecisionReuseCache ELSE DecisionExecute

\* C23: in a resume, a task that the previous run completed and whose cache
\* entry still exists is never run again.
C23_CompletedWithEntryNotExecutedAgain ==
    ResumeAccepted =>
        \A t \in Tasks :
            (workspace.left[t].completed /\ workspace.left[t].has) => calls.run[t] = 0

C25_ResumeLinksRunAndCountsRetry ==
    (cli.pc \in {"running", "returned"} /\ recovery.run # <<>>
     /\ recovery.run.Status = "running") =>
        IF inv.IsResume
        THEN /\ ResumeAccepted
             /\ recovery.prev # <<>>
             /\ recovery.run.PreviousRunID = recovery.prev.RunID
             /\ recovery.run.PreviousRunID = inv.PreviousRunID
             /\ recovery.run.RetryCount = recovery.prev.RetryCount + 1
             /\ recovery.run.GraphHash = recovery.prev.GraphHash
        ELSE /\ recovery.run.PreviousRunID = ""
             /\ recovery.run.RetryCount = 0

\* the resume of a run that was itself a retry has started a run
C25_Witness ==
    /\ cli.pc = "running"
    /\ inv.IsResume
    /\ recovery.prev # <<>>
    /\ recovery.prev.RetryCount = MaxRetry
    /\ recovery.prev.PreviousRunID = "older"
    /\ recovery.run # <<>>
    /\ recovery.run.RetryCount = MaxRetry + 1
    /\ recovery.run.PreviousRunID = "r0"

C27_GraphOrWorkspaceFailureNeverResumed ==
    (/\ cli.pc \in {"running", "returned"}
     /\ inv.IsResume
     /\ inv.PreviousRunID = "r0"
     /\ recovery.prevFailure.class \in {"GraphFailure", "WorkspaceFailure"})
        => /\ cli.pc = "returned"
           /\ cli.ExitCode = ExitCodes.ValidationError
           /\ cli.err \in {"previous run not found", "graph hash mismatch for previous run"}
           /\ ~cli.GraphResult
           /\ recovery.run = <<>>
           /\ cli.restored = {}
           /\ \A t \in Tasks : TotalCalls(t) = 0 /\ state[t] = TaskPending

\* the resume with retry-failed-only of a run that failed to load its graph
\* has been rejected, in a workspace whose cache holds an entry
C27_Witness ==
    /\ cli.pc = "returned"
    /\ cli.again
    /\ inv.IsResume
    /\ inv.RetryFailedOnly
    /\ inv.PreviousRunID = "r0"
    /\ recovery.prev # <<>>
    /\ recovery.prevFailure.class = "GraphFailure"
    /\ workspace.fault = ""
    /\ \E t \in Tasks : workspace.left[t].has

\* C28: when the restoration of a task fails while the resume plan is built
\* (the task is reusable and so is everything upstream of it, but restoring
\* it fails), the resume is not aborted: the run goes on, and the task and
\* every task downstream of it are executed rather than reused.
C28_RestoreFailureDemotesToExecute ==
    LET reusable(t) == workspace.left[t].checkpoint = "match" /\ workspace.left[t].has
        restoreFails == {t \in Tasks :
                           /\ reusable(t)
                           /\ ~workspace.left[t].restorable
                           /\ \A a \in Tasks :
                                 t \in Descendants(workspace.edges, a) =>
                                    reusable(a) /\ workspace.left[a].restorable}
    IN (ResumePlanned /\ restoreFails # {}) =>
          /\ cli.err = ""
          /\ recovery.run # <<>>
          /\ \A t \in restoreFails :
                \A d \in {t} \cup Descendants(workspace.edges, t) :
                    plan.Decisions[d] = DecisionExecute

\* C29: an invocation that has returned from a run in which some task is
\* Failed carries the graph result and no error, has the execution-failure
\* exit code, and has recorded, besides the run, an execution failure that
\* names the failed task that is first in name order.
C29_FailedRunReportsExecutionFailure ==
    (cli.pc = "returned" /\ FailedTasks # {}) =>
        /\ cli.GraphResult
        /\ cli.err = ""
        /\ cli.ExitCode = ExitCodes.ExecutionError
        /\ recovery.run # <<>>
        /\ recovery.failure.class = "ExecutionFailure"
        /\ recovery.failure.node \in FailedTasks
        /\ \A t \in FailedTasks : recovery.failure.node <= t

\* a run has returned with two failed tasks and a skipped one
C29_Witness ==
    /\ cli.pc = "returned"
    /\ Cardinality(FailedTasks) = 2
    /\ \E t \in Tasks : state[t] = TaskSkipped
    /\ recovery.failure.class = "ExecutionFailure"

\* ============================================================ graph hash
\* Model of the graph definition (package graph): Graph.Normalize and
\* ComputeHash over a Document {graph: {nodes, edges}, metadata}.  A node is
\* [ID, Type, Inputs, Outputs]: Inputs a map from strings to strings, Outputs
\* a list of strings.  An edge is [From, To].

\* variant: the outputs of a node are left in the order of the input
Normalize_KeepOutputOrder(g) ==
    LET RECURSIVE sortNodes(_)
        sortNodes(ns) ==
            IF Len(ns) <= 1 THEN ns
            ELSE LET sorted == sortNodes(SubSeq(ns, 1, Len(ns) - 1))
                     x == ns[Len(ns)]
                     k == Cardinality({i \in DOMAIN sorted : ~StrLess(x.ID, sorted[i].ID)})
                 IN  SubSeq(sorted, 1, k) \o <<x>> \o SubSeq(sorted, k + 1, Len(sorted))
        edgeLess(a, b) == IF a.From # b.From THEN StrLess(a.From, b.From)
                          ELSE StrLess(a.To, b.To)
        RECURSIVE sortEdges(_)
        sortEdges(es) ==
            IF Len(es) <= 1 THEN es
            ELSE LET sorted == sortEdges(SubSeq(es, 1, Len(es) - 1))
                     x == es[Len(es)]
                     k == Cardinality({i \in DOMAIN sorted : ~edgeLess(x, sorted[i])})
                 IN  SubSeq(sorted, 1, k) \o <<x>> \o SubSeq(sorted, k + 1, Len(sorted))
    IN [Nodes |-> sortNodes(g.Nodes), Edges |-> sortEdges(g.Edges)]

\* Graph.Normalize: nodes sorted by id, the outputs of each node sorted,
\* edges sorted by from, then to
Normalize(g) ==
    LET RECURSIVE sortNodes(_)
        sortNodes(ns) ==
            IF Len(ns) <= 1 THEN ns
            ELSE LET sorted == sortNodes(SubSeq(ns, 1, Len(ns) - 1))
                     x == ns[Len(ns)]
                     k == Cardinality({i \in DOMAIN sorted : ~StrLess(x.ID, sorted[i].ID)})
                 IN  SubSeq(sorted, 1, k) \o <<x>> \o SubSeq(sorted, k + 1, Len(sorted))
        edgeLess(a, b) == IF a.From # b.From THEN StrLess(a.From, b.From)
                          ELSE StrLess(a.To, b.To)
        RECURSIVE sortEdges(_)
        sortEdges(es) ==
            IF Len(es) <= 1 THEN es
            ELSE LET sorted == sortEdges(SubSeq(es, 1, Len(es) - 1))
                     x == es[Len(es)]
                     k == Cardinality({i \in DOMAIN sorted : ~edgeLess(x, sorted[i])})
                 IN  SubSeq(sorted, 1, k) \o <<x>> \o SubSeq(sorted, k + 1, Len(sorted))
        sortOutputs(ns) == [i \in DOMAIN ns |-> [ns[i] EXCEPT !.Outputs = SortStrings(@)]]
    IN [Nodes |-> sortOutputs(sortNodes(g.Nodes)), Edges |-> sortEdges(g.Edges)]

\* ComputeHash: the digest of the compact JSON of the normalized copy of the
\* graph.  The JSON is the list of the nodes, each with its id, its type, its
\* inputs as key/value pairs in key order and its outputs, and the list of
\* the edges; the digest stands for the bytes it is taken of.
ComputeHash(g) ==
    LET marshal(n) ==
            <<"nodes", [i \in DOMAIN n.Nodes |->
                          <<"id", n.Nodes[i].ID, "type", n.Nodes[i].Type,
                            "inputs", [k \in DOMAIN SortedKeys(DOMAIN n.Nodes[i].Inputs) |->
                                         <<SortedKeys(DOMAIN n.Nodes[i].Inputs)[k],
                                           n.Nodes[i].Inputs[
                                              SortedKeys(DOMAIN n.Nodes[i].Inputs)[k]]>>],
                            "outputs", n.Nodes[i].Outputs>>],
              "edges", [i \in DOMAIN n.Edges |->
                          <<"from", n.Edges[i].From, "to", n.Edges[i].To>>]>>
    IN marshal(Normalize(g))

\* A graph document before it is hashed.  Its nodes have distinct ids, as
\* Validate requires.  Either its nodes are the first ids in any order, node
\* "a" with any type, inputs and outputs, and it has no edges; or its nodes
\* are in id order and its edges are up to MaxUpstream distinct edges in any
\* order.  The metadata has a name or none.
HashInit ==
    /\ ExecutorIdle
    /\ PlannerIdle
    /\ inv = <<>>
    /\ recovery = <<>>
    /\ workspace = <<>>
    /\ cli = [pc |-> "idle"]
    /\ hooks = <<>>
    /\ LET ids == SubSeq(<<"a", "b", "c", "d", "e">>, 1, NumNodes)
           node(id, type, inputs, outputs) ==
               [ID |-> id, Type |-> type, Inputs |-> inputs, Outputs |-> outputs]
           plain(id) == node(id, "x", [k \in {} |-> ""], <<>>)
           document(nodes, es, name) ==
               [doc |-> [Graph |-> [Nodes |-> nodes, Edges |-> es],
                         Metadata |-> [Name |-> name]],
                edited |-> [Graph |-> [Nodes |-> nodes, Edges |-> es],
                            Metadata |-> [Name |-> name]],
                edit |-> "none"]
       IN \E name \in {"", "x"} :
             \/ \E k \in 1..NumNodes :
                \E perm \in {f \in [1..k -> 1..k] : \A i, j \in 1..k : f[i] = f[j] => i = j},
                   type \in {"x", "y"},
                   inputs \in UNION {[K -> {"x", "y"}] : K \in SUBSET {"d", "e"}},
                   outputs \in {<<>>, <<"x">>, <<"x", "y">>, <<"y", "x">>, <<"x", "x">>} :
                   gdoc = document([i \in 1..k |->
                                      IF perm[i] = 1 THEN node("a", type, inputs, outputs)
                                      ELSE plain(ids[perm[i]])],
                                   <<>>, name)
             \/ \E n \in 0..MaxUpstream :
                \E seq \in [1..n -> {e \in [From : Elems(ids), To : Elems(ids)] :
                                      StrLess(e.From, e.To)}] :
                   /\ \A i, j \in 1..n : seq[i] = seq[j] => i = j
                   /\ gdoc = document([i \in 1..NumNodes |-> plain(ids[i])], seq, name)

\* an edit of the document that leaves the graph the same: two nodes, two
\* edges or two outputs of a node change places, or the metadata is rewritten
Rearrange ==
    /\ gdoc.edit = "none"
    /\ UNCHANGED <<inv, recovery, workspace, cli, hooks, plannerVars, executorVars>>
    /\ LET g == gdoc.doc.Graph
           swap(seq, i, j) == [seq EXCEPT ![i] = seq[j], ![j] = seq[i]]
           edited(kind, d) == gdoc' = [gdoc EXCEPT !.edited = d, !.edit = kind]
       IN \/ \E i, j \in DOMAIN g.Nodes :
                /\ i < j
                /\ edited("nodes reordered",
                          [gdoc.doc EXCEPT !.Graph.Nodes = swap(g.Nodes, i, j)])
          \/ \E i, j \in DOMAIN g.Edges :
                /\ i < j
                /\ edited("edges reordered",
                          [gdoc.doc EXCEPT !.Graph.Edges = swap(g.Edges, i, j)])
          \/ \E n \in DOMAIN g.Nodes : \E i, j \in DOMAIN g.Nodes[n].Outputs :
                /\ i < j
                /\ edited("outputs reordered",
                          [gdoc.doc EXCEPT !.Graph.Nodes[n].Outputs =
                                              swap(g.Nodes[n].Outputs, i, j)])
          \/ \E name \in {"", "x", "y"} \ {gdoc.doc.Metadata.Name} :
                edited("metadata changed", [gdoc.doc EXCEPT !.Metadata.Name = name])

\* an edit of the document that changes the graph: a node, an edge, an
\* input of a node or an output of a node is added, removed or altered
Change ==
    /\ gdoc.edit = "none"
    /\ UNCHANGED <<inv, recovery, workspace, cli, hooks, plannerVars, executorVars>>
    /\ LET g == gdoc.doc.Graph
           used == {g.Nodes[i].ID : i \in DOMAIN g.Nodes}
           fresh == {"a", "b", "c", "d", "e"} \ used
           insert(seq, p, x) == SubSeq(seq, 1, p - 1) \o <<x>> \o SubSeq(seq, p, Len(seq))
           remove(seq, p) == SubSeq(seq, 1, p - 1) \o SubSeq(seq, p + 1, Len(seq))
           edited(kind, graph) == gdoc' = [gdoc EXCEPT !.edited.Graph = graph, !.edit = kind]
       IN \/ \E p \in 1..(Len(g.Nodes) + 1), id \in fresh :
                edited("node added",
                       [g EXCEPT !.Nodes = insert(@, p, [ID |-> id, Type |-> "x",
                                                         Inputs |-> [k \in {} |-> ""],
                                                         Outputs |-> <<>>])])
          \/ \E p \in DOMAIN g.Nodes :
                edited("node removed", [g EXCEPT !.Nodes = remove(@, p)])
          \/ \E p \in DOMAIN g.Nodes, id \in fresh :
                edited("node altered", [g EXCEPT !.Nodes[p].ID = id])
          \/ \E p \in DOMAIN g.Nodes :
                edited("node altered",
                       [g EXCEPT !.Nodes[p].Type = IF @ = "x" THEN "y" ELSE "x"])
          \/ \E p \in 1..(Len(g.Edges) + 1), e \in [From : used, To : used] :
                /\ e.From # e.To
                /\ edited("edge added", [g EXCEPT !.Edges = insert(@, p, e)])
          \/ \E p \in DOMAIN g.Edges :
                edited("edge removed", [g EXCEPT !.Edges = remove(@, p)])
          \/ \E p \in DOMAIN g.Edges, e \in [From : used, To : used] :
                /\ e.From # e.To
                /\ e # g.Edges[p]
                /\ edited("edge altered", [g EXCEPT !.Edges[p] = e])
          \/ \E p \in DOMAIN g.Nodes : \E k \in {"d", "e"} \ DOMAIN g.Nodes[p].Inputs,
                v \in {"x", "y"} :
                edited("input added",
                       [g EXCEPT !.Nodes[p].Inputs =
                                    [x \in DOMAIN @ \cup {k} |-> IF x = k THEN v ELSE @[x]]])
          \/ \E p \in DOMAIN g.Nodes : \E k \in DOMAIN g.Nodes[p].Inputs :
                edited("input removed",
                       [g EXCEPT !.Nodes[p].Inputs = [x \in DOMAIN @ \ {k} |-> @[x]]])
          \/ \E p \in DOMAIN g.Nodes : \E k \in DOMAIN g.Nodes[p].Inputs :
                edited("input altered",
                       [g EXCEPT !.Nodes[p].Inputs[k] = IF @ = "x" THEN "y" ELSE "x"])
          \/ \E p \in DOMAIN g.Nodes : \E q \in 1..(Len(g.Nodes[p].Outputs) + 1),
                o \in {"x", "y"} :
                edited("output added", [g EXCEPT !.Nodes[p].Outputs = insert(@, q, o)])
          \/ \E p \in DOMAIN g.Nodes : \E q \in DOMAIN g.Nodes[p].Outputs :
                edited("output removed", [g EXCEPT !.Nodes[p].Outputs = remove(@, q)])
          \/ \E p \in DOMAIN g.Nodes : \E q \in DOMAIN g.Nodes[p].Outputs :
                edited("output altered",
                       [g EXCEPT !.Nodes[p].Outputs[q] = IF @ = "x" THEN "y" ELSE "x"])

HashNext ==
    \/ Rearrange
    \/ Change

HashSpec == HashInit /\ [][HashNext]_vars

\* C30: the hash of the graph of a document is the hash of the graph of the
\* document that results from it when two nodes, two edges or two outputs
\* of a node change places or the metadata is rewritten, and differs from
\* the hash of the graph that results when a node, an edge, an input of a
\* node or an output of a node is added, removed or altered.
C30_HashInvariantUnderOrderAndMetadataOnly ==
    gdoc.edit # "none" =>
        (ComputeHash(gdoc.doc.Graph) = ComputeHash(gdoc.edited.Graph))
           = (gdoc.edit \in {"nodes reordered", "edges reordered", "outputs reordered",
                             "metadata changed"})

\* the two outputs of a node that has two inputs and stands after another
\* node have changed places
C30_Witness ==
    /\ gdoc.edit = "outputs reordered"
    /\ gdoc.doc # gdoc.edited
    /\ \E n \in DOMAIN gdoc.doc.Graph.Nodes :
          /\ n > 1
          /\ gdoc.doc.Graph.Nodes[n].Outputs = <<"y", "x">>
          /\ gdoc.edited.Graph.Nodes[n].Outputs = <<"x", "y">>
          /\ DOMAIN gdoc.doc.Graph.Nodes[n].Inputs = {"d", "e"}

\* ------------------------------------------------------------ graph validation
\* Validate without the sorting of the nodes, of the edges and of the neighbours
Validate_AsGiven(g) ==
    LET nil == [Kind |-> "", Msg |-> <<>>, Path |-> <<>>]
        StructuralError(kind, msg, cyclePath) == [Kind |-> kind, Msg |-> msg, Path |-> cyclePath]
        sortedNodes == [i \in DOMAIN g.Nodes |-> g.Nodes[i].ID]
        nodeIDs == Elems(sortedNodes)
        edgeLess(a, b) == IF a.From # b.From THEN StrLess(a.From, b.From)
                          ELSE StrLess(a.To, b.To)
        RECURSIVE sortEdges(_)
        sortEdges(es) ==
            IF Len(es) <= 1 THEN es
            ELSE LET sorted == sortEdges(SubSeq(es, 1, Len(es) - 1))
                     x == es[Len(es)]
                     k == Cardinality({i \in DOMAIN sorted : ~edgeLess(x, sorted[i])})
                 IN  SubSeq(sorted, 1, k) \o <<x>> \o SubSeq(sorted, k + 1, Len(sorted))
        sortedEdges == g.Edges
        duplicates == {i \in DOMAIN sortedNodes :
                         \E j \in 1..(i - 1) : sortedNodes[j] = sortedNodes[i]}
        broken(e) == e.From = e.To \/ e.From \notin nodeIDs \/ e.To \notin nodeIDs
        edgeError(e) ==
            IF e.From = e.To THEN StructuralError("self_reference", <<e.From, e.To>>, <<>>)
            ELSE IF e.From \notin nodeIDs
                 THEN StructuralError("dangling_edge", <<e.From>>, <<>>)
                 ELSE StructuralError("dangling_edge", <<e.To>>, <<>>)
        adjacency(es, node) ==
            (SelectSeq([i \in DOMAIN es |-> IF es[i].From = node THEN es[i].To
                                                       ELSE ""],
                                  LAMBDA to : to # ""))
        cycleStart(path, neighbor) == MinOf({i \in DOMAIN path : path[i] = neighbor})
        RECURSIVE dfs(_, _, _, _), each(_, _, _, _, _, _), after(_, _, _, _, _, _)
        dfs(es, node, color, path) ==
            each(es, node, adjacency(es, node), 1, [color EXCEPT ![node] = 1],
                 Append(path, node))
        each(es, node, neighbors, i, color, path) ==
            IF i > Len(neighbors) THEN [err |-> nil, color |-> [color EXCEPT ![node] = 2]]
            ELSE IF color[neighbors[i]] = 1
                 THEN [err |-> StructuralError("cycle", <<>>,
                                  Append(SubSeq(path, cycleStart(path, neighbors[i]),
                                                Len(path)),
                                         neighbors[i])),
                       color |-> color]
            ELSE IF color[neighbors[i]] = 0
                 THEN after(dfs(es, neighbors[i], color, path), es, node, neighbors, i, path)
            ELSE each(es, node, neighbors, i + 1, color, path)
        after(r, es, node, neighbors, i, path) ==
            IF r.err # nil THEN r ELSE each(es, node, neighbors, i + 1, r.color, path)
        RECURSIVE roots(_, _, _, _), rooted(_, _, _, _)
        roots(es, allNodes, i, color) ==
            IF i > Len(allNodes) THEN nil
            ELSE IF color[allNodes[i]] # 0 THEN roots(es, allNodes, i + 1, color)
            ELSE rooted(dfs(es, allNodes[i], color, <<>>), es, allNodes, i)
        rooted(r, es, allNodes, i) ==
            IF r.err # nil THEN r.err ELSE roots(es, allNodes, i + 1, r.color)
        checkEdges(es) ==
            IF \E i \in DOMAIN es : broken(es[i])
            THEN edgeError(es[MinOf({i \in DOMAIN es : broken(es[i])})])
            ELSE roots(es, SortedKeys(nodeIDs), 1, [id \in nodeIDs |-> 0])
    IN IF duplicates # {}
       THEN StructuralError("duplicate_id", <<sortedNodes[MinOf(duplicates)]>>, <<>>)
       ELSE checkEdges(sortedEdges)

\* Validate reporting the whole search path in front of the cycle
Validate_WholePath(g) ==
    LET nil == [Kind |-> "", Msg |-> <<>>, Path |-> <<>>]
        StructuralError(kind, msg, cyclePath) == [Kind |-> kind, Msg |-> msg, Path |-> cyclePath]
        sortedNodes == SortStrings([i \in DOMAIN g.Nodes |-> g.Nodes[i].ID])
        nodeIDs == Elems(sortedNodes)
        edgeLess(a, b) == IF a.From # b.From THEN StrLess(a.From, b.From)
                          ELSE StrLess(a.To, b.To)
        RECURSIVE sortEdges(_)
        sortEdges(es) ==
            IF Len(es) <= 1 THEN es
            ELSE LET sorted == sortEdges(SubSeq(es, 1, Len(es) - 1))
                     x == es[Len(es)]
                     k == Cardinality({i \in DOMAIN sorted : ~edgeLess(x, sorted[i])})
                 IN  SubSeq(sorted, 1, k) \o <<x>> \o SubSeq(sorted, k + 1, Len(sorted))
        sortedEdges == sortEdges(g.Edges)
        duplicates == {i \in DOMAIN sortedNodes :
                         \E j \in 1..(i - 1) : sortedNodes[j] = sortedNodes[i]}
        broken(e) == e.From = e.To \/ e.From \notin nodeIDs \/ e.To \notin nodeIDs
        edgeError(e) ==
            IF e.From = e.To THEN StructuralError("self_reference", <<e.From, e.To>>, <<>>)
            ELSE IF e.From \notin nodeIDs
                 THEN StructuralError("dangling_edge", <<e.From>>, <<>>)
                 ELSE StructuralError("dangling_edge", <<e.To>>, <<>>)
        adjacency(es, node) ==
            SortStrings(SelectSeq([i \in DOMAIN es |-> IF es[i].From = node THEN es[i].To
                                                       ELSE ""],
                                  LAMBDA to : to # ""))
        cycleStart(path, neighbor) == MinOf({i \in DOMAIN path : path[i] = neighbor})
        RECURSIVE dfs(_, _, _, _), each(_, _, _, _, _, _), after(_, _, _, _, _, _)
        dfs(es, node, color, path) ==
            each(es, node, adjacency(es, node), 1, [color EXCEPT ![node] = 1],
                 Append(path, node))
        each(es, node, neighbors, i, color, path) ==
            IF i > Len(neighbors) THEN [err |-> nil, color |-> [color EXCEPT ![node] = 2]]
            ELSE IF color[neighbors[i]] = 1
                 THEN [err |-> StructuralError("cycle", <<>>,
                                  Append(path, neighbors[i])),
                       color |-> color]
            ELSE IF color[neighbors[i]] = 0
                 THEN after(dfs(es, neighbors[i], color, path), es, node, neighbors, i, path)
            ELSE each(es, node, neighbors, i + 1, color, path)
        after(r, es, node, neighbors, i, path) ==
            IF r.err # nil THEN r ELSE each(es, node, neighbors, i + 1, r.color, path)
        RECURSIVE roots(_, _, _, _), rooted(_, _, _, _)
        roots(es, allNodes, i, color) ==
            IF i > Len(allNodes) THEN nil
            ELSE IF color[allNodes[i]] # 0 THEN roots(es, allNodes, i + 1, color)
            ELSE rooted(dfs(es, allNodes[i], color, <<>>), es, allNodes, i)
        rooted(r, es, allNodes, i) ==
            IF r.err # nil THEN r.err ELSE roots(es, allNodes, i + 1, r.color)
        checkEdges(es) ==
            IF \E i \in DOMAIN es : broken(es[i])
            THEN edgeError(es[MinOf({i \in DOMAIN es : broken(es[i])})])
            ELSE roots(es, SortedKeys(nodeIDs), 1, [id \in nodeIDs |-> 0])
    IN IF duplicates # {}
       THEN StructuralError("duplicate_id", <<sortedNodes[MinOf(duplicates)]>>, <<>>)
       ELSE checkEdges(sortedEdges)

\* Validate: nil (Kind "") for a sound graph, else the first structural
\* error met: a duplicate id among the nodes sorted by id, then a self
\* reference or an unknown endpoint among the edges sorted by from, then to,
\* then a cycle met by the depth-first search from the ids in sorted order
Validate(g) ==
    LET nil == [Kind |-> "", Msg |-> <<>>, Path |-> <<>>]
        StructuralError(kind, msg, cyclePath) == [Kind |-> kind, Msg |-> msg, Path |-> cyclePath]
        sortedNodes == SortStrings([i \in DOMAIN g.Nodes |-> g.Nodes[i].ID])
        nodeIDs == Elems(sortedNodes)
        edgeLess(a, b) == IF a.From # b.From THEN StrLess(a.From, b.From)
                          ELSE StrLess(a.To, b.To)
        RECURSIVE sortEdges(_)
        sortEdges(es) ==
            IF Len(es) <= 1 THEN es
            ELSE LET sorted == sortEdges(SubSeq(es, 1, Len(es) - 1))
                     x == es[Len(es)]
                     k == Cardinality({i \in DOMAIN sorted : ~edgeLess(x, sorted[i])})
                 IN  SubSeq(sorted, 1, k) \o <<x>> \o SubSeq(sorted, k + 1, Len(sorted))
        sortedEdges == sortEdges(g.Edges)
        duplicates == {i \in DOMAIN sortedNodes :
                         \E j \in 1..(i - 1) : sortedNodes[j] = sortedNodes[i]}
        broken(e) == e.From = e.To \/ e.From \notin nodeIDs \/ e.To \notin nodeIDs
        edgeError(e) ==
            IF e.From = e.To THEN StructuralError("self_reference", <<e.From, e.To>>, <<>>)
            ELSE IF e.From \notin nodeIDs
                 THEN StructuralError("dangling_edge", <<e.From>>, <<>>)
                 ELSE StructuralError("dangling_edge", <<e.To>>, <<>>)
        adjacency(es, node) ==
            SortStrings(SelectSeq([i \in DOMAIN es |-> IF es[i].From = node THEN es[i].To
                                                       ELSE ""],
                                  LAMBDA to : to # ""))
        cycleStart(path, neighbor) == MinOf({i \in DOMAIN path : path[i] = neighbor})
        RECURSIVE dfs(_, _, _, _), each(_, _, _, _, _, _), after(_, _, _, _, _, _)
        dfs(es, node, color, path) ==
            each(es, node, adjacency(es, node), 1, [color EXCEPT ![node] = 1],
                 Append(path, node))
        each(es, node, neighbors, i, color, path) ==
            IF i > Len(neighbors) THEN [err |-> nil, color |-> [color EXCEPT ![node] = 2]]
            ELSE IF color[neighbors[i]] = 1
                 THEN [err |-> StructuralError("cycle", <<>>,
                                  Append(SubSeq(path, cycleStart(path, neighbors[i]),
                                                Len(path)),
                                         neighbors[i])),
                       color |-> color]
            ELSE IF color[neighbors[i]] = 0
                 THEN after(dfs(es, neighbors[i], color, path), es, node, neighbors, i, path)
            ELSE each(es, node, neighbors, i + 1, color, path)
        after(r, es, node, neighbors, i, path) ==
            IF r.err # nil THEN r ELSE each(es, node, neighbors, i + 1, r.color, path)
        RECURSIVE roots(_, _, _, _), rooted(_, _, _, _)
        roots(es, allNodes, i, color) ==
            IF i > Len(allNodes) THEN nil
            ELSE IF color[allNodes[i]] # 0 THEN roots(es, allNodes, i + 1, color)
            ELSE rooted(dfs(es, allNodes[i], color, <<>>), es, allNodes, i)
        rooted(r, es, allNodes, i) ==
            IF r.err # nil THEN r.err ELSE roots(es, allNodes, i + 1, r.color)
        checkEdges(es) ==
            IF \E i \in DOMAIN es : broken(es[i])
            THEN edgeError(es[MinOf({i \in DOMAIN es : broken(es[i])})])
            ELSE roots(es, SortedKeys(nodeIDs), 1, [id \in nodeIDs |-> 0])
    IN IF duplicates # {}
       THEN StructuralError("duplicate_id", <<sortedNodes[MinOf(duplicates)]>>, <<>>)
       ELSE checkEdges(sortedEdges)

\* A parsed graph before it is validated.  Either its nodes are any sequence
\* of up to NumNodes + 1 nodes with the ids "a", "b", "c", repeated or not,
\* and its edges are one of a few lists, sound or with one defect; or its
\* nodes are distinct and in id order and its edges are any sequence of up to
\* MaxUpstream + 1 edges, self references and unknown endpoints included.
ValidateInit ==
    /\ ExecutorIdle
    /\ PlannerIdle
    /\ inv = <<>>
    /\ recovery = <<>>
    /\ workspace = <<>>
    /\ cli = [pc |-> "idle"]
    /\ hooks = <<>>
    /\ LET node(id) == [ID |-> id, Type |-> "x", Inputs |-> [k \in {} |-> ""],
                        Outputs |-> <<>>]
           edge(from, to) == [From |-> from, To |-> to]
           parsed(ids, es) ==
               [given |-> [Nodes |-> [i \in DOMAIN ids |-> node(ids[i])], Edges |-> es],
                err |-> [Kind |-> "", Msg |-> <<>>, Path |-> <<>>],
                pc |-> "parsed"]
       IN \/ \E n \in 0..(NumNodes + 1) :
             \E ids \in [1..n -> {"a", "b", "c"}],
                es \in {<<>>, <<edge("a", "b")>>, <<edge("b", "b")>>, <<edge("a", "d")>>,
                        <<edge("b", "a"), edge("a", "b")>>} :
                gdoc = parsed(ids, es)
          \/ \E S \in SUBSET {"a", "b", "c"}, n \in 0..(MaxUpstream + 1) :
             \E es \in [1..n -> {edge("a", "b"), edge("b", "a"), edge("b", "c"),
                                 edge("c", "b"), edge("a", "c"), edge("c", "a"),
                                 edge("b", "b"), edge("a", "d"), edge("d", "a")}] :
                gdoc = parsed(SortedKeys(S), es)

\* the same graph is given with two of its nodes or two of its edges in
\* each other's place
Reorder ==
    /\ gdoc.pc = "parsed"
    /\ UNCHANGED <<inv, recovery, workspace, cli, hooks, plannerVars, executorVars>>
    /\ LET swap(seq, i, j) == [seq EXCEPT ![i] = seq[j], ![j] = seq[i]]
       IN \/ \E i, j \in DOMAIN gdoc.given.Nodes :
                /\ i < j
                /\ gdoc' = [gdoc EXCEPT !.given.Nodes = swap(@, i, j), !.pc = "reordered"]
          \/ \E i, j \in DOMAIN gdoc.given.Edges :
                /\ i < j
                /\ gdoc' = [gdoc EXCEPT !.given.Edges = swap(@, i, j), !.pc = "reordered"]

\* Validate is called on the graph as given
ValidateGraph ==
    /\ gdoc.pc \in {"parsed", "reordered"}
    /\ UNCHANGED <<inv, recovery, workspace, cli, hooks, plannerVars, executorVars>>
    /\ gdoc' = [gdoc EXCEPT !.err = Validate(gdoc.given), !.pc = "validated"]

ValidateNext ==
    \/ Reorder
    \/ ValidateGraph

ValidateSpec == ValidateInit /\ [][ValidateNext]_vars

\* C31: Validate returns no error exactly for the graphs with unique node
\* ids, edges between existing nodes, no self edge and no directed cycle;
\* an error it returns names a defect the graph has (a repeated id, a self
\* edge, an edge to or from an unknown node, a cycle); when ids repeat the
\* error is duplicate_id with the smallest repeated id; and the error is
\* the one returned for the same nodes and edges in sorted order.
C31_ValidateSoundCompleteDeterministic ==
    gdoc.pc = "validated" =>
        LET g == gdoc.given
            r == gdoc.err
            ids == {g.Nodes[i].ID : i \in DOMAIN g.Nodes}
            repeated == {g.Nodes[i].ID : i \in {k \in DOMAIN g.Nodes :
                            \E j \in DOMAIN g.Nodes : j # k /\ g.Nodes[j].ID = g.Nodes[k].ID}}
            selfEdge == \E i \in DOMAIN g.Edges : g.Edges[i].From = g.Edges[i].To
            unknown == ({g.Edges[i].From : i \in DOMAIN g.Edges}
                           \cup {g.Edges[i].To : i \in DOMAIN g.Edges}) \ ids
            RECURSIVE reach(_, _)
            reach(S, found) ==
                IF {g.Edges[i].To : i \in {j \in DOMAIN g.Edges : g.Edges[j].From \in S}}
                      \subseteq found
                THEN found
                ELSE reach({g.Edges[i].To : i \in {j \in DOMAIN g.Edges :
                                                     g.Edges[j].From \in S}} \ found,
                           found \cup {g.Edges[i].To : i \in {j \in DOMAIN g.Edges :
                                                                g.Edges[j].From \in S}})
            cyclic == \E i \in DOMAIN g.Edges :
                         g.Edges[i].From \in reach({g.Edges[i].To}, {g.Edges[i].To})
        IN /\ (r.Kind = "") = (repeated = {} /\ ~selfEdge /\ unknown = {} /\ ~cyclic)
           /\ r.Kind \in {"", "duplicate_id", "self_reference", "dangling_edge", "cycle"}
           /\ r.Kind = "duplicate_id" => repeated # {}
           /\ r.Kind = "self_reference" =>
                 \E i \in DOMAIN g.Edges :
                    g.Edges[i].From = g.Edges[i].To /\ r.Msg = <<g.Edges[i].From, g.Edges[i].To>>
           /\ r.Kind = "dangling_edge" => \E id \in unknown : r.Msg = <<id>>
           /\ r.Kind = "cycle" => cyclic
           /\ repeated # {} =>
                 /\ r.Kind = "duplicate_id"
                 /\ \E id \in repeated :
                       r.Msg = <<id>> /\ \A other \in repeated \ {id} : StrLess(id, other)
           /\ r = Validate(Normalize(g))

\* two ids are repeated among four nodes given out of order, the edges hold
\* a self reference as well, and the smaller repeated id is reported
C31_Witness ==
    /\ gdoc.pc = "validated"
    /\ Len(gdoc.given.Nodes) = 4
    /\ gdoc.given.Nodes[1].ID = "c"
    /\ gdoc.given.Nodes[2].ID = "a"
    /\ gdoc.given.Nodes[3].ID = "a"
    /\ gdoc.given.Nodes[4].ID = "c"
    /\ Len(gdoc.given.Edges) = 1
    /\ gdoc.given.Edges[1].From = gdoc.given.Edges[1].To
    /\ gdoc.err.Kind = "duplicate_id"
    /\ gdoc.err.Msg = <<"a">>

\* C32 as stated: the path of a reported cycle follows edges of the graph,
\* begins and ends at the same node, and begins at the smallest node on it.
C32_CyclePathStartsAtSmallestNode ==
    (gdoc.pc = "validated" /\ gdoc.err.Kind = "cycle") =>
        LET path == gdoc.err.Path
        IN /\ Len(path) >= 3
           /\ \A i \in 1..(Len(path) - 1) :
                 \E k \in DOMAIN gdoc.given.Edges :
                    gdoc.given.Edges[k] = [From |-> path[i], To |-> path[i + 1]]
           /\ path[1] = path[Len(path)]
           /\ \A n \in Elems(path) \ {path[1]} : StrLess(path[1], n)

\* C32: the path of a reported cycle follows edges of the graph, begins and
\* ends at the same node and passes no node twice otherwise; it begins at
\* the smallest node on it provided that no edge leads into the reported
\* cycle from a node outside it.
C32_CyclePathStartsAtSmallestNodeIfNotEnteredFromOutside ==
    (gdoc.pc = "validated" /\ gdoc.err.Kind = "cycle") =>
        LET path == gdoc.err.Path
            es == gdoc.given.Edges
        IN /\ Len(path) >= 3
           /\ \A i \in 1..(Len(path) - 1) :
                 \E k \in DOMAIN es : es[k] = [From |-> path[i], To |-> path[i + 1]]
           /\ path[1] = path[Len(path)]
           /\ \A i, j \in 1..(Len(path) - 1) : path[i] = path[j] => i = j
           /\ (\A k \in DOMAIN es : es[k].To \in Elems(path) => es[k].From \in Elems(path))
                 => \A n \in Elems(path) \ {path[1]} : StrLess(path[1], n)

\* the cycle a, b, c is reported of a graph given with its edges out of order
C32_Witness ==
    /\ gdoc.pc = "validated"
    /\ gdoc.err.Kind = "cycle"
    /\ gdoc.err.Path = <<"a", "b", "c", "a">>
    /\ gdoc.given.Edges[1] = [From |-> "c", To |-> "a"]

\* ------------------------------------------------------------ plugin hooks
MaxPlugins == 2   \* plugins handed to NewHookEngine

\* NewHookEngine with the entries left in the order the plugins were given
NewHookEngine_AsRegistered(plugins) ==
    LET entries == [i \in DOMAIN plugins |->
                      [id |-> plugins[i].PluginID, hooks |-> plugins[i].Hooks,
                       plugin |-> plugins[i]]]
        RECURSIVE sort(_)
        sort(es) ==
            IF Len(es) <= 1 THEN es
            ELSE LET sorted == sort(SubSeq(es, 1, Len(es) - 1))
                     x == es[Len(es)]
                     k == Cardinality({i \in DOMAIN sorted : ~StrLess(x.id, sorted[i].id)})
                 IN  SubSeq(sorted, 1, k) \o <<x>> \o SubSeq(sorted, k + 1, Len(sorted))
        checked(es) ==
            IF \E i \in 2..Len(es) : es[i].id = es[i - 1].id
            THEN [error |-> "duplicate plugin id", plug |-> <<>>]
            ELSE [error |-> "", plug |-> es]
    IN checked(entries)

\* NewHookEngine: one entry per plugin, sorted by plugin id; two plugins with
\* one id are rejected.  A plugin is its manifest (PluginID, Hooks) and what
\* its hook methods do: return nil (fault "none"), return an error, panic, or
\* not exist ("missing") although the manifest declares the hook.
NewHookEngine(plugins) ==
    LET entries == [i \in DOMAIN plugins |->
                      [id |-> plugins[i].PluginID, hooks |-> plugins[i].Hooks,
                       plugin |-> plugins[i]]]
        RECURSIVE sort(_)
        sort(es) ==
            IF Len(es) <= 1 THEN es
            ELSE LET sorted == sort(SubSeq(es, 1, Len(es) - 1))
                     x == es[Len(es)]
                     k == Cardinality({i \in DOMAIN sorted : ~StrLess(x.id, sorted[i].id)})
                 IN  SubSeq(sorted, 1, k) \o <<x>> \o SubSeq(sorted, k + 1, Len(sorted))
        checked(es) ==
            IF \E i \in 2..Len(es) : es[i].id = es[i - 1].id
            THEN [error |-> "duplicate plugin id", plug |-> <<>>]
            ELSE [error |-> "", plug |-> es]
    IN checked(sort(entries))

\* a hook method without the recover: the panic of a plugin leaves the method
HookEngineCall_NoRecover(plug, hook, taskID) ==
    LET RECURSIVE loop(_, _)
        step(ent, acc) ==
            IF hook \notin ent.hooks THEN acc
            ELSE IF ent.plugin.fault = "missing"
                 THEN [acc EXCEPT !.err = Append(@, <<ent.id, hook, "not implemented">>)]
            ELSE IF ent.plugin.fault = "panic"
                 THEN [acc EXCEPT !.calls = Append(@, <<ent.id, hook, taskID>>),
                                  !.panicked = TRUE]
            ELSE IF ent.plugin.fault = "error"
                 THEN [acc EXCEPT !.calls = Append(@, <<ent.id, hook, taskID>>),
                                  !.err = Append(@, <<ent.id, hook, "error">>)]
            ELSE [acc EXCEPT !.calls = Append(@, <<ent.id, hook, taskID>>)]
        loop(i, acc) ==
            IF i > Len(plug) \/ acc.panicked THEN acc
            ELSE loop(i + 1, step(plug[i], acc))
    IN loop(1, [calls |-> <<>>, err |-> <<>>, panicked |-> FALSE])

\* HookEngine.BeforeRun, AfterRun, BeforeNode and AfterNode, which differ in
\* the hook name only: every entry that declares the hook is called in turn;
\* an undeclared method, a returned error and a recovered panic are recorded
\* and the loop goes on.  The result is the calls made, the errors recorded,
\* and whether a panic left the method.
HookEngineCall(plug, hook, taskID) ==
    LET RECURSIVE loop(_, _)
        step(ent, acc) ==
            IF hook \notin ent.hooks THEN acc
            ELSE IF ent.plugin.fault = "missing"
                 THEN [acc EXCEPT !.err = Append(@, <<ent.id, hook, "not implemented">>)]
            ELSE IF ent.plugin.fault = "panic"
                 THEN [acc EXCEPT !.calls = Append(@, <<ent.id, hook, taskID>>),
                                  !.err = Append(@, <<ent.id, hook, "panic">>)]
            ELSE IF ent.plugin.fault = "error"
                 THEN [acc EXCEPT !.calls = Append(@, <<ent.id, hook, taskID>>),
                                  !.err = Append(@, <<ent.id, hook, "error">>)]
            ELSE [acc EXCEPT !.calls = Append(@, <<ent.id, hook, taskID>>)]
        loop(i, acc) ==
            IF i > Len(plug) \/ acc.panicked THEN acc
            ELSE loop(i + 1, step(plug[i], acc))
    IN loop(1, [calls |-> <<>>, err |-> <<>>, panicked |-> FALSE])

\* A hook engine built of up to MaxPlugins plugins, registered in any order,
\* and attached to an executor about to run a graph serially: no task has
\* started.  The tasks of `failing` exit non-zero.
HookInit ==
    /\ ExecutorIdle
    /\ PlannerIdle
    /\ inv = <<>>
    /\ recovery = <<>>
    /\ workspace = <<>>
    /\ cli = [pc |-> "idle"]
    /\ gdoc = <<>>
    /\ LET attached(plugins, E, failing) ==
               [plugins |-> plugins,
                error |-> NewHookEngine(plugins).error,
                plug |-> NewHookEngine(plugins).plug,
                err |-> <<>>,
                calls |-> <<>>,
                points |-> <<>>,
                E |-> E,
                failing |-> failing,
                st |-> [t \in Tasks |-> TaskPending],
                cur |-> 0,
                pc |-> IF NewHookEngine(plugins).error = "" THEN "start" ELSE "rejected"]
           Manifests == [Hooks : {{"BeforeRun", "AfterRun", "BeforeNode", "AfterNode"},
                                  {"BeforeNode"}, {"BeforeRun", "AfterRun"}},
                         fault : {"none", "error", "panic", "missing"}]
           plugin(id, m) == [PluginID |-> id, Hooks |-> m.Hooks, fault |-> m.fault]
       IN \E run \in {<<{}, {}>>, <<{<<1, 2>>}, {}>>, <<{<<1, 2>>}, {1}>>,
                      <<{<<1, 2>>}, {2}>>} :
             \/ \E n \in 0..MaxPlugins :
                \E ids \in {f \in [1..n -> {"a", "b", "c"}] :
                              \A i, j \in 1..n : f[i] = f[j] => i = j} :
                \E ms \in [1..n -> Manifests] :
                   hooks = attached([i \in 1..n |-> plugin(ids[i], ms[i])], run[1], run[2])
             \/ \E m \in Manifests :
                   hooks = attached(<<plugin("b", m), plugin("a", m), plugin("b", m)>>,
                                    run[1], run[2])

\* RunSerial reaches the hook point before the first task
BeforeRun ==
    /\ hooks.pc = "start"
    /\ UNCHANGED <<inv, recovery, workspace, cli, gdoc, plannerVars, executorVars>>
    /\ LET reached(r) ==
               hooks' = [hooks EXCEPT !.calls = @ \o r.calls, !.err = @ \o r.err,
                                      !.points = Append(@, <<"BeforeRun", 0>>),
                                      !.pc = IF r.panicked THEN "crashed" ELSE "poll"]
       IN reached(HookEngineCall(hooks.plug, "BeforeRun", 0))

\* RunSerial takes the first ready task and reaches the hook point before it
BeforeNode ==
    /\ hooks.pc = "poll"
    /\ GetReadyTasks(hooks.E, hooks.st) # <<>>
    /\ UNCHANGED <<inv, recovery, workspace, cli, gdoc, plannerVars, executorVars>>
    /\ LET reached(t, r) ==
               hooks' = [hooks EXCEPT !.calls = @ \o r.calls, !.err = @ \o r.err,
                                      !.points = Append(@, <<"BeforeNode", t>>),
                                      !.cur = t,
                                      !.st = Transition(@, t, TaskPending, TaskRunning).st,
                                      !.pc = IF r.panicked THEN "crashed" ELSE "run"]
       IN reached(GetReadyTasks(hooks.E, hooks.st)[1],
                  HookEngineCall(hooks.plug, "BeforeNode",
                                 GetReadyTasks(hooks.E, hooks.st)[1]))

\* the task runs: it completes, or it fails and what lies downstream is skipped
RunNode ==
    /\ hooks.pc = "run"
    /\ UNCHANGED <<inv, recovery, workspace, cli, gdoc, plannerVars, executorVars>>
    /\ hooks' = [hooks EXCEPT
                    !.st = IF hooks.cur \in hooks.failing
                           THEN FailAndPropagate(hooks.E, @, hooks.cur).st
                           ELSE Transition(@, hooks.cur, TaskRunning, TaskCompleted).st,
                    !.pc = "after"]

\* RunSerial reaches the hook point after the task
AfterNode ==
    /\ hooks.pc = "after"
    /\ UNCHANGED <<inv, recovery, workspace, cli, gdoc, plannerVars, executorVars>>
    /\ LET reached(r) ==
               hooks' = [hooks EXCEPT !.calls = @ \o r.calls, !.err = @ \o r.err,
                                      !.points = Append(@, <<"AfterNode", hooks.cur>>),
                                      !.pc = IF r.panicked THEN "crashed" ELSE "poll"]
       IN reached(HookEngineCall(hooks.plug, "AfterNode", hooks.cur))

\* no task is ready any more: RunSerial reaches the hook point after the run
AfterRun ==
    /\ hooks.pc = "poll"
    /\ GetReadyTasks(hooks.E, hooks.st) = <<>>
    /\ UNCHANGED <<inv, recovery, workspace, cli, gdoc, plannerVars, executorVars>>
    /\ LET reached(r) ==
               hooks' = [hooks EXCEPT !.calls = @ \o r.calls, !.err = @ \o r.err,
                                      !.points = Append(@, <<"AfterRun", 0>>),
                                      !.pc = IF r.panicked THEN "crashed" ELSE "done"]
       IN reached(HookEngineCall(hooks.plug, "AfterRun", 0))

HookNext ==
    \/ BeforeRun
    \/ BeforeNode
    \/ RunNode
    \/ AfterNode
    \/ AfterRun

HookSpec == HookInit /\ [][HookNext]_vars

\* ------------------------------------------------------------ hook properties
\* C33: no hook point ends the run, whatever the plugins do; at every hook
\* point reached, every plugin that declares the hook and has the method was
\* called, also after a plugin that panicked or returned an error; the
\* engine's error list holds one error for every such fault and for every
\* declared method that is missing, and nothing else; and the run ends in the
\* state it ends in without plugins.
C33_HookFaultsRecordedRunUnaffected ==
    hooks.pc # "rejected" =>
        LET due == {<<k, i>> \in (DOMAIN hooks.points) \X (DOMAIN hooks.plug) :
                       hooks.points[k][1] \in hooks.plug[i].hooks}
            fault(i) == hooks.plug[i].plugin.fault
            ancestorsFail(t) ==
                \E a \in hooks.failing : t \in Descendants(hooks.E, a)
        IN /\ hooks.pc # "crashed"
           /\ \A d \in due :
                 /\ fault(d[2]) # "missing" =>
                       <<hooks.plug[d[2]].id, hooks.points[d[1]][1], hooks.points[d[1]][2]>>
                          \in Elems(hooks.calls)
                 /\ fault(d[2]) # "none" =>
                       <<hooks.plug[d[2]].id, hooks.points[d[1]][1],
                         IF fault(d[2]) = "missing" THEN "not implemented" ELSE fault(d[2])>>
                          \in Elems(hooks.err)
           /\ Len(hooks.calls) = Cardinality({d \in due : fault(d[2]) # "missing"})
           /\ Len(hooks.err) = Cardinality({d \in due : fault(d[2]) # "none"})
           /\ hooks.pc = "done" =>
                 hooks.st = [t \in Tasks |->
                               IF ancestorsFail(t) THEN TaskSkipped
                               ELSE IF t \in hooks.failing THEN TaskFailed
                               ELSE TaskCompleted]

\* the run is over; the first plugin panicked and the second returned an
\* error at every hook point, a task failed and another was skipped
C33_Witness ==
    /\ hooks.pc = "done"
    /\ Len(hooks.plug) = 2
    /\ hooks.plug[1].plugin.fault = "panic"
    /\ hooks.plug[2].plugin.fault = "error"
    /\ hooks.plug[1].hooks = {"BeforeRun", "AfterRun", "BeforeNode", "AfterNode"}
    /\ hooks.plug[2].hooks = {"BeforeRun", "AfterRun", "BeforeNode", "AfterNode"}
    /\ hooks.st[1] = TaskFailed
    /\ hooks.st[2] = TaskSkipped
    /\ Len(hooks.err) = Len(hooks.calls)
    /\ Len(hooks.err) >= 8

\* C34: in the sequence of hook calls, the BeforeRun calls come before every
\* other call and the AfterRun calls after every other call; the calls for
\* one task are not mixed with those for another, its BeforeNode calls
\* before its AfterNode calls; the calls of one hook point are in strictly
\* ascending plugin id order; and once the run is over, each task that ran
\* has had each hook point once and a skipped task none.
C34_HookCallsFollowLifecycleInPluginOrder ==
    hooks.pc # "rejected" =>
        LET c == hooks.calls
            isNode(x) == x[2] \in {"BeforeNode", "AfterNode"}
            reached(hook, t) == Cardinality({k \in DOMAIN hooks.points :
                                               hooks.points[k] = <<hook, t>>})
        IN /\ \A i, j \in DOMAIN c :
                 i < j =>
                    /\ c[j][2] = "BeforeRun" => c[i][2] = "BeforeRun"
                    /\ c[i][2] = "AfterRun" => c[j][2] = "AfterRun"
                    /\ (c[i][2] = c[j][2] /\ c[i][3] = c[j][3]) => StrLess(c[i][1], c[j][1])
                    /\ (isNode(c[i]) /\ isNode(c[j]) /\ c[i][3] = c[j][3]) =>
                          /\ c[i][2] = "AfterNode" => c[j][2] = "AfterNode"
                          /\ \A k \in i..j : isNode(c[k]) /\ c[k][3] = c[i][3]
           /\ \A k \in DOMAIN hooks.points :
                 /\ (hooks.points[k][1] = "BeforeRun") = (k = 1)
                 /\ hooks.points[k][1] = "AfterRun" => k = Len(hooks.points)
                 /\ hooks.points[k][1] = "AfterNode" =>
                       hooks.points[k - 1] = <<"BeforeNode", hooks.points[k][2]>>
           /\ hooks.pc = "done" =>
                 /\ reached("BeforeRun", 0) = 1
                 /\ reached("AfterRun", 0) = 1
                 /\ \A t \in Tasks :
                       /\ reached("BeforeNode", t) =
                             (IF hooks.st[t] \in {TaskCompleted, TaskFailed} THEN 1 ELSE 0)
                       /\ reached("AfterNode", t) = reached("BeforeNode", t)

\* the run is over; plugin "c" was registered before plugin "a", both
\* declare every hook, and "a" was called first at every hook point
C34_Witness ==
    /\ hooks.pc = "done"
    /\ Len(hooks.plugins) = 2
    /\ hooks.plugins[1].PluginID = "c"
    /\ hooks.plugins[2].PluginID = "a"
    /\ \A i \in 1..2 : hooks.plugins[i].Hooks = {"BeforeRun", "AfterRun", "BeforeNode",
                                                 "AfterNode"}
    /\ \A i \in 1..2 : hooks.plugins[i].fault = "none"
    /\ hooks.failing = {}
    /\ Len(hooks.calls) = 2 * (2 + 2 * NumTasks)
    /\ hooks.calls[1] = <<"a", "BeforeRun", 0>>
    /\ hooks.calls[2] = <<"c", "BeforeRun", 0>>

\* ------------------------------------------------------------ executor, once more
\* C35: a run that has returned, in either mode and with any number of
\* workers, has the outcome of RunSerial for the same graph, plan and runner
\* answers: an executor error if RunSerial returns one, else the same final
\* state and the same exit code for every task.  The outcome of RunSerial is
\* computed from the answers the runner has given; where it has given none
\* yet, every answer is tried.
C35_SerialAndParallelAgree ==
    (Returned /\ ctx = "live") =>
        \A out \in {f \in [Tasks -> {"exit0", "exit1", "err", "nil"}] :
                      \A t \in Tasks : runner.out[t] # "?" => f[t] = runner.out[t]},
           probe \in {f \in [Tasks -> {"hit", "miss"}] :
                        \A t \in Tasks : runner.probe[t] # "?" => f[t] = runner.probe[t]} :
           LET commit(st, next, code) ==
                   IF code = 0 THEN [st EXCEPT ![next] = TaskCompleted]
                   ELSE FailAndPropagate(edges, [st EXCEPT ![next] = TaskRunning], next).st
               RECURSIVE serial(_, _), step(_, _, _)
               serial(st, ex) ==
                   IF GetReadyTasks(edges, st) = <<>>
                   THEN [kind |-> "result", st |-> st, ex |-> ex]
                   ELSE step(st, ex, GetReadyTasks(edges, st)[1])
               step(st, ex, next) ==
                   IF plan.present /\ plan.Decisions[next] = DecisionReuseCache
                   THEN serial(commit(st, next, IF out[next] = "exit0" THEN 0 ELSE 1),
                               MapPut(ex, next, IF out[next] = "exit0" THEN 0 ELSE 1))
                   ELSE IF ~plan.present /\ probe[next] = "hit"
                   THEN serial([st EXCEPT ![next] = TaskCached], MapPut(ex, next, 0))
                   ELSE IF out[next] \in {"err", "nil"}
                   THEN [kind |-> "error", st |-> st, ex |-> ex]
                   ELSE serial(commit(st, next, ExitCodeOf(out[next])),
                               MapPut(ex, next, ExitCodeOf(out[next])))
               agrees(ref) ==
                   IF retval.kind = "error" THEN ref.kind = "error"
                   ELSE ref.kind = "result" /\ ref.st = state /\ ref.ex = exitCodes
           IN agrees(serial([t \in Tasks |-> TaskPending], EmptyMap))

\* ------------------------------------------------------------ RunParallel alone
\* RunParallel about to start, with a runner that may return errors and nil
\* results and under a context that may be cancelled; the plan is absent
\* (every task is probed, then run on a miss) or decides ReuseCache for
\* every task (every task is restored); every edge leads from a task to a
\* task of a greater name
ParInit ==
    /\ FaultInit
    /\ mode = "parallel"
    /\ \A e \in edges : e[1] < e[2]
    /\ plan.present => \A t \in Tasks : plan.Decisions[t] = DecisionReuseCache

ParNext ==
    \/ ParDispatch
    \/ ParStageEnd
    \/ ParCompletion
    \/ ParReturn
    \/ WorkerReceive
    \/ WorkerRun
    \/ Cancel
    \/ ParCancel

ParSpec == ParInit /\ [][ParNext]_vars

\* C36: after every step of a parallel run, a dispatch iteration finds room
\* on the work channel, a worker holding an item finds room on the
\* completion channel, and as long as the run has not returned, the
\* coordinator or a worker has a next step (with the context cancelled, the
\* coordinator's select takes the cancellation); while the workers are
\* being stopped, every step of a worker lessens what is left on the work
\* channel and in the workers' hands, so that the stopping ends.
C36_ParallelNeverBlocks ==
    [][/\ (pc' = "dispatch" /\ dispatchMore') => Len(workCh') < concurrency
       /\ busy' # {} => Len(doneCh') < concurrency
       /\ pc' # "done" => (CanStep' \/ (pc' = "select" /\ ctx' = "cancelled"))
       /\ (pc = "stopping" /\ ctx' = ctx) =>
             \/ pc' = "done"
             \/ 2 * Len(workCh') + Cardinality(busy')
                   < 2 * Len(workCh) + Cardinality(busy)]_vars

\* the workers are being stopped after an executor error while another
\* item is still on the work channel and a worker holds a third
C36_Witness ==
    /\ mode = "parallel"
    /\ pc = "stopping"
    /\ retval.kind = "error"
    /\ workCh # <<>>
    /\ busy # {}

\* ------------------------------------------------------------ resume, once more
\* C37: whenever buildResumePlan returned without an error having decided
\* ReuseCache for a task and restored it, the executor runs under a plan
\* with the planner's decisions, and the runner is never probed.
C37_ReusePlanReachesExecutor ==
    (ResumePlanned /\ cli.pc \in {"running", "returned"}) =>
        LET given(built) ==
                (built.err = "" /\ \E t \in built.restored :
                                      built.Decisions[t] = DecisionReuseCache) =>
                    /\ plan.present
                    /\ plan.Decisions = built.Decisions
                    /\ \A t \in Tasks : calls.probe[t] = 0
        IN given(buildResumePlan(workspace.edges, workspace.left, FALSE))

\* C38: no finished run is left with the status "running": when the
\* invocation has returned, the record of its run has the status "completed"
\* if the executor returned a graph result in which no task failed, and the
\* status "failed" if a task failed or the executor returned an error.
C38_FinishedRunIsNotLeftRunning ==
    (cli.pc = "returned" /\ recovery.run # <<>>) =>
        /\ recovery.run.Status # "running"
        /\ (cli.GraphResult /\ cli.ExitCode = ExitCodes.Success) =>
              recovery.run.Status = "completed"
        /\ (~cli.GraphResult \/ cli.ExitCode = ExitCodes.ExecutionError) =>
              recovery.run.Status = "failed"

\* ============================================================ executor, the graph result
\* C39: in every graph result the executor returns, a Completed task has the
\* recorded exit code 0, a Failed task has a recorded exit code other than 0,
\* and a Skipped task has no recorded exit code (the task hash is written
\* only where an exit code is written, so it has no task hash either); the
\* execution order lists a task once if it was run or restored and not at
\* all otherwise, and every upstream task of a listed task is listed before
\* it or was taken from the cache by the probe, which lists nothing.
C39_GraphResultIsConsistent ==
    (Returned /\ retval.kind = "result") =>
        /\ \A t \in Tasks :
              /\ state[t] = TaskCompleted => (t \in DOMAIN exitCodes /\ exitCodes[t] = 0)
              /\ state[t] = TaskFailed => (t \in DOMAIN exitCodes /\ exitCodes[t] # 0)
              /\ state[t] = TaskSkipped => t \notin DOMAIN exitCodes
              /\ Cardinality({i \in DOMAIN order : order[i] = t}) =
                    IF calls.run[t] + calls.restore[t] > 0 THEN 1 ELSE 0
        /\ \A i \in DOMAIN order : \A u \in Upstream(edges, order[i]) :
              \/ \E j \in 1..(i - 1) : order[j] = u
              \/ state[u] = TaskCached /\ calls.run[u] + calls.restore[u] = 0

\* a returned result of a parallel run with a restored task, a task
\* downstream of it that was run and failed, and a skipped task
C39_Witness ==
    /\ Returned
    /\ retval.kind = "result"
    /\ mode = "parallel"
    /\ \E t \in Tasks : state[t] = TaskCompleted /\ calls.restore[t] = 1
    /\ \E t \in Tasks : state[t] = TaskFailed /\ calls.run[t] = 1 /\ Upstream(edges, t) # {}
    /\ \E t \in Tasks : state[t] = TaskSkipped

\* C40: for an acyclic graph and a runner that returns results without
\* error, the consistency errors of the executor are unreachable: when
\* RunSerial polls and finds no ready task, every task is terminal; the task
\* RunParallel looks at when dispatching is terminal, or Pending with all its
\* dependencies successful; every completion RunParallel receives is for a
\* Running task; and no run returns one of the four consistency errors.
C40_ConsistencyErrorsUnreachable ==
    /\ (mode = "serial" /\ pc = "poll" /\ GetReadyTasks(edges, state) = <<>>) =>
          \A t \in Tasks : IsTerminal(state[t])
    /\ (mode = "parallel" /\ pc = "dispatch" /\ dispatchMore) =>
          LET name == names[nextToStart + 1]
          IN \/ IsTerminal(state[name])
             \/ state[name] = TaskPending /\ depsSatisfied(name)
    /\ mode = "parallel" => \A i \in DOMAIN doneCh : state[doneCh[i].name] = TaskRunning
    /\ retval.err \notin {"no ready tasks but graph not finished",
                          "unexpected non-pending state",
                          "pending but dependencies are not successful",
                          "completion but state is not running"}

\* the coordinator of a parallel run is about to look, at dispatch, at a task
\* that a failure in an earlier stage has made Skipped, after a stage in
\* which another task completed
C40_Witness ==
    /\ mode = "parallel"
    /\ pc = "dispatch"
    /\ dispatchMore
    /\ state[names[nextToStart + 1]] = TaskSkipped
    /\ FailedTasks # {}
    /\ \E t \in Tasks : state[t] = TaskCompleted

====
